---------------------------- MODULE Spec2Model ----------------------------
(***************************************************************************)
(* LAN voice input: the command interpreter (CommandProcessor), the dedup  *)
(* gate and InputService of src/lanvi_input.py, the two ingress contexts   *)
(* of src/lanvi_transport.py and the listener lifecycle of src/server.py.  *)
(*                                                                         *)
(* A text is a sequence of characters.  A character is written as a short  *)
(* ASCII name: a Latin letter or digit is itself, a CJK character is named *)
(* by its pinyin (zan ting = U+6682 U+505C, "pause"), "SP" is a blank and  *)
(* "NL" a line break.  len(text) of the code is Len of the sequence.       *)
(* Time is counted in tenths of a second.                                  *)
(***************************************************************************)
EXTENDS Integers, Sequences, FiniteSets, TLC

VARIABLES
    IS_WINDOWS,     \* platform probe: which InputInjector variant is in use
    paused,         \* CommandProcessor.paused
    history,        \* CommandProcessor.history, a deque(maxlen=HISTORY_MAX_LEN)
    last_msg,       \* InputService._last_msg
    last_time,      \* InputService._last_time
    now,            \* time.time()
    calls,          \* number of handle_text calls made so far
    call,           \* what the most recent handle_text call did
    prev,           \* text and time of the most recent non-empty handle_text call
    acc,            \* text and time of the most recent call that was not suppressed
    pc,             \* position of each ingress context inside handle_text
    loc,            \* locals of each ingress context
    SERVICE_LOCK,   \* holder of SERVICE_LOCK, or "free"
    SERVICE_RUNNING,
    HTTP_PORT,
    WS_PORT,
    QR_PAYLOAD_URL,
    HTTP_SERVER,    \* id of the listener HTTP_SERVER refers to, or 0
    WS_LOOP,        \* id of the listener whose loop WS_LOOP refers to, or 0
    WS_SERVER,      \* id of the listener WS_SERVER refers to, or 0
    WS_THREAD,      \* id of the listener thread WS_THREAD refers to, or 0
    cpc,            \* position of each caller thread inside start/stop
    cloc,           \* locals of each caller thread
    http,           \* HTTP listener threads by id
    ws,             \* WebSocket listener threads by id
    launches,       \* number of start_services calls that went on to launch
    lifecalls,      \* number of start_services and stop_services calls made so far
    occupied,       \* ports bound by other processes
    commands,       \* get_commands(): the configured commands
    conn,           \* the WebSocket connection: "open", or how its handler ended
    rx,             \* the frames ws_handler took from the connection, oldest first
    tx,             \* the frames ws_handler sent on the connection, oldest first
    runs,           \* the argument vectors handed to subprocess.run
    msgs,           \* number of frames and requests handled so far
    wire,           \* what the most recent frame or request led to
    client_counter, \* ClientCounter.count
    handler,        \* each connection's ws_handler: its position, how it ended
    sock,           \* each connection as its client drives it
    httpreq,        \* what the HTTP listener thread is doing
    wsloop,         \* the WebSocket loop thread and what was asked of its loop
    stopcall,       \* position of the stop_services call
    svc             \* ServiceState as stop_services leaves it

inputVars == <<IS_WINDOWS, paused, history, last_msg, last_time, now, calls,
               call, prev, acc>>
raceVars  == <<pc, loc>>
lifeVars  == <<SERVICE_LOCK, SERVICE_RUNNING, HTTP_PORT, WS_PORT, QR_PAYLOAD_URL,
               HTTP_SERVER, WS_LOOP, WS_SERVER, WS_THREAD, cpc, cloc, http, ws, launches,
               occupied, lifecalls>>
wireVars  == <<commands, conn, rx, tx, runs, msgs, wire>>
loopVars  == <<client_counter, handler, sock, httpreq, wsloop, stopcall, svc>>
vars == <<inputVars, raceVars, lifeVars, wireVars, loopVars>>

---------------------------------------------------------------------------
(* Program constants *)

CLEAR_BACKSPACE_MAX == 200
SERVER_DEDUP_WINDOW_SEC == 12       \* 1.2 s in tenths of a second
HISTORY_MAX_LEN == 300
HISTORY_ENTRY_MAX == 4000           \* record_output: out[:4000]

(* Bounds of the model *)

MaxCalls == 3                       \* handle_text calls in one behaviour
MaxCommandCalls == 1                \* calls made from a state earlier calls left
MaxPushes == 302                    \* free texts recorded one after the other
MaxTime == 16                       \* the clock stops here
Deltas == {8, 12}                   \* amounts the clock advances by

---------------------------------------------------------------------------
(* Texts *)

IsSpace(c) == c \in {"SP", "NL", "TAB"}

RECURSIVE LStrip(_)
LStrip(s) == IF s # <<>> /\ IsSpace(Head(s)) THEN LStrip(Tail(s)) ELSE s

RECURSIVE RStrip(_)
RStrip(s) ==
    IF s # <<>> /\ IsSpace(s[Len(s)]) THEN RStrip(SubSeq(s, 1, Len(s) - 1)) ELSE s

\* str.strip()
Strip(s) == RStrip(LStrip(s))

\* whether the text k occurs in s at position i
OccursAt(s, i, k) ==
    /\ i + Len(k) - 1 <= Len(s)
    /\ \A j \in 1..Len(k) : s[i + j - 1] = k[j]

\* s[i..] with every non-overlapping occurrence of k, left to right, replaced by v
RECURSIVE ReplaceFrom(_, _, _, _)
ReplaceFrom(s, i, k, v) ==
    IF i > Len(s) THEN <<>>
    ELSE IF OccursAt(s, i, k) THEN v \o ReplaceFrom(s, i + Len(k), k, v)
    ELSE <<s[i]>> \o ReplaceFrom(s, i + 1, k, v)

\* str.replace(k, v) for a non-empty k
Replace(s, k, v) ==
    IF \E i \in 1..Len(s) : OccursAt(s, i, k) THEN ReplaceFrom(s, 1, k, v) ELSE s

(* The texts the ingress hands to InputService *)

\* "__TEST_INJECT__"
TEST_SENTINEL == <<"_", "_", "T", "E", "S", "T", "_", "I", "N", "J", "E", "C", "T", "_", "_">>

T_hello == <<"h", "e", "l", "l", "o">>
T_hello_padded == <<"SP", "h", "e", "l", "l", "o", "NL">>
T_ab == <<"a", "b">>
T_blank == <<"SP", "NL">>
T_pause == <<"zan", "ting">>
T_resume == <<"ji", "xu">>
T_enter == <<"huan", "hang">>
T_comma == <<"dou", "hao">>
T_comma_alias == <<"dou2", "hao">>
T_undo == <<"shan", "chu", "shang", "yi", "ju">>
T_undo2 == <<"che2", "xiao", "shang", "yi", "ju">>
T_delete5 == <<"shan", "chu", "5", "ge2", "zi">>
T_backspace12 == <<"tui", "ge", "SP", "1", "2", "ci">>
T_delete == <<"shan", "chu">>
T_clear == <<"qing", "kong">>
T_sentence == <<"qing2", "shan", "chu", "3", "hang">>
T_alias_inside == <<"a", "dou2", "hao">>

Inputs == { T_hello, T_hello_padded, T_ab, T_blank, T_pause, T_resume, T_enter,
            T_comma, T_comma_alias, T_undo, T_delete5, T_backspace12, T_delete,
            T_clear, T_sentence, T_alias_inside, TEST_SENTINEL }

\* CommandProcessor.alias, in the dict's insertion order
\* dou2 hao -> dou hao, dou3 hao2 -> dou hao, ju2 hao -> ju hao,
\* ju3 hao2 -> ju hao, ju dian -> ju hao
alias == << <<(<<"dou2", "hao">>), (<<"dou", "hao">>)>>,
            <<(<<"dou3", "hao2">>), (<<"dou", "hao">>)>>,
            <<(<<"ju2", "hao">>), (<<"ju", "hao">>)>>,
            <<(<<"ju3", "hao2">>), (<<"ju", "hao">>)>>,
            <<(<<"ju", "dian">>), (<<"ju", "hao">>)>> >>

RECURSIVE ApplyAlias(_, _)
ApplyAlias(s, i) ==
    IF i > Len(alias) THEN s
    ELSE ApplyAlias(Replace(s, alias[i][1], alias[i][2]), i + 1)

\* CommandProcessor.normalize on each of the texts the model hands in, worked out
\* once
normalized == [t \in {Strip(r) : r \in Inputs} |-> ApplyAlias(Strip(t), 1)]

\* CommandProcessor.normalize
normalize(text) ==
    IF text \in DOMAIN normalized THEN normalized[text] ELSE ApplyAlias(Strip(text), 1)

\* CommandProcessor.punc_map: the spoken name and the (full-width) symbol typed
\* for it, one character each
punc_names == { <<"dou", "hao">>, <<"ju", "hao">>, <<"wen", "hao">>,
                <<"gan", "tan", "hao">>, <<"mao", "hao">>, <<"fen", "hao">>,
                <<"dun", "hao">> }
punc_map(t) ==
    CASE t = <<"dou", "hao">> -> <<"sym_comma">>
      [] t = <<"ju", "hao">> -> <<"sym_stop">>
      [] t = <<"wen", "hao">> -> <<"sym_question">>
      [] t = <<"gan", "tan", "hao">> -> <<"sym_exclaim">>
      [] t = <<"mao", "hao">> -> <<"sym_colon">>
      [] t = <<"fen", "hao">> -> <<"sym_semicolon">>
      [] t = <<"dun", "hao">> -> <<"sym_dun">>

\* the phrase lists of CommandProcessor.handle
PausePhrases == { <<"zan", "ting", "shu", "ru">>, <<"zan", "ting">>,
                  <<"ting", "zhi", "shu", "ru">> }
ResumePhrases == { <<"ji", "xu", "shu", "ru">>, <<"ji", "xu">>,
                   <<"hui", "fu", "shu", "ru">> }
EnterPhrases == { <<"huan", "hang">>, <<"hui2", "che">>, <<"xia", "yi", "hang">>,
                  <<"e", "n", "t", "e", "r">>, <<"E", "N", "T", "E", "R">>,
                  <<"hui2", "che", "jian">>, <<"e", "n", "t", "e", "r", "jian">>,
                  <<"E", "n", "t", "e", "r">> }
TabPhrases == { <<"t", "a", "b">>, <<"T", "A", "B">>, <<"zhi2", "biao", "fu2">>,
                <<"zhi2", "biao">>, <<"t", "a", "b", "jian">>,
                <<"T", "A", "B", "jian">>, <<"T", "a", "b">> }
EscPhrases == { <<"e", "s", "c">>, <<"E", "S", "C">>,
                <<"e", "s", "c", "a", "p", "e">>, <<"E", "S", "C", "jian">>,
                <<"e", "s", "c", "jian">>, <<"E", "s", "c", "a", "p", "e">> }
UndoPhrases == { <<"shan", "chu", "shang", "yi", "ju">>,
                 <<"che2", "hui2", "shang", "yi", "ju">>,
                 <<"che2", "xiao", "shang", "yi", "ju">>,
                 <<"shan", "diao", "shang", "yi", "ju">> }
ClearPhrases == { <<"qing", "kong">>, <<"qing", "chu", "quan", "bu">>,
                  <<"quan", "bu", "shan", "chu">> }

DigitChars == {"0", "1", "2", "3", "4", "5", "6", "7", "8", "9"}
DigitVal(c) ==
    CASE c = "0" -> 0 [] c = "1" -> 1 [] c = "2" -> 2 [] c = "3" -> 3
      [] c = "4" -> 4 [] c = "5" -> 5 [] c = "6" -> 6 [] c = "7" -> 7
      [] c = "8" -> 8 [] c = "9" -> 9

\* int() of the digits text[i..j]
RECURSIVE IntOf(_, _, _)
IntOf(text, i, j) ==
    IF j < i THEN 0 ELSE IntOf(text, i, j - 1) * 10 + DigitVal(text[j])

\* first position >= i of text that holds no white space (\s*)
RECURSIVE SkipSpace(_, _)
SkipSpace(text, i) ==
    IF i <= Len(text) /\ IsSpace(text[i]) THEN SkipSpace(text, i + 1) ELSE i

\* last position of the run of digits that starts at i (\d+, greedy)
RECURSIVE DigitsEnd(_, _)
DigitsEnd(text, i) ==
    IF i + 1 <= Len(text) /\ text[i + 1] \in DigitChars
    THEN DigitsEnd(text, i + 1) ELSE i

\* whether (shan chu | tui ge)\s*(\d+) matches at position i
DeleteAt(text, i) ==
    /\ i + 1 <= Len(text)
    /\ SubSeq(text, i, i + 1) \in { <<"shan", "chu">>, <<"tui", "ge">> }
    /\ SkipSpace(text, i + 2) <= Len(text)
    /\ text[SkipSpace(text, i + 2)] \in DigitChars

\* parse_delete_n with the slip of \d for \d+: only the first digit is read
parse_delete_n_one_digit(text) ==
    LET hits == {i \in 1..Len(text) : DeleteAt(text, i)}
    IN  IF hits = {} THEN [found |-> FALSE, n |-> 0]
        ELSE LET i == CHOOSE h \in hits : \A g \in hits : h <= g
                 d == SkipSpace(text, i + 2)
             IN  [found |-> TRUE, n |-> IntOf(text, d, d)]

\* CommandProcessor.parse_delete_n: re.search, the leftmost match; found = FALSE
\* is the code's None
parse_delete_n(text) ==
    LET hits == {i \in 1..Len(text) : DeleteAt(text, i)}
    IN  IF hits = {} THEN [found |-> FALSE, n |-> 0]
        ELSE LET i == CHOOSE h \in hits : \A g \in hits : h <= g
                 d == SkipSpace(text, i + 2)
             IN  [found |-> TRUE, n |-> IntOf(text, d, DigitsEnd(text, d))]

---------------------------------------------------------------------------
(* CommandProcessor *)

NoText == <<>>

\* CommandResult.output: "" (kind empty), a str (kind text) or a tuple (kind key)
Empty == [kind |-> "empty", text |-> NoText, key |-> "", n |-> 0]
TypeText(t) == [kind |-> "text", text |-> t, key |-> "", n |-> 0]
Action(k, n) == [kind |-> "key", text |-> NoText, key |-> k, n |-> n]

CommandResult(handled, tag, shown, output) ==
    [handled |-> handled, display_text |-> <<tag, shown>>, output |-> output]

\* handle_active with the slip of popleft() for pop(): the undo branch takes the
\* oldest entry
handle_active_popleft(raw_text, text, p, h) ==
    LET n == parse_delete_n(text)
        same(r) == [result |-> r, paused |-> p, history |-> h]
    IN  IF text \in EnterPhrases
        THEN same(CommandResult(TRUE, "enter", NoText, Action("__ENTER__", 1)))
        ELSE IF text \in TabPhrases
        THEN same(CommandResult(TRUE, "tab", NoText, Action("__TAB__", 1)))
        ELSE IF text \in EscPhrases
        THEN same(CommandResult(TRUE, "esc", NoText, Action("__ESC__", 1)))
        ELSE IF text \in punc_names
        THEN same(CommandResult(TRUE, "punctuation", text, TypeText(punc_map(text))))
        ELSE IF text \in UndoPhrases
        THEN IF h = <<>>
             THEN same(CommandResult(TRUE, "nothing_to_delete", NoText, Empty))
             ELSE [result |-> CommandResult(TRUE, "delete_last", h[1],
                                            Action("__BACKSPACE__", Len(h[1]))),
                   paused |-> p,
                   history |-> Tail(h)]
        ELSE IF n.found
        THEN same(CommandResult(TRUE, "delete_n", NoText, Action("__BACKSPACE__", n.n)))
        ELSE IF text \in ClearPhrases
        THEN same(CommandResult(TRUE, "clear", NoText,
                                Action("__BACKSPACE__", CLEAR_BACKSPACE_MAX)))
        ELSE same(CommandResult(FALSE, "free_text", raw_text, TypeText(raw_text)))

\* handle_active whose clear-all branch empties the history as well
handle_active_clear_forgets(raw_text, text, p, h) ==
    LET n == parse_delete_n(text)
        same(r) == [result |-> r, paused |-> p, history |-> h]
    IN  IF text \in EnterPhrases
        THEN same(CommandResult(TRUE, "enter", NoText, Action("__ENTER__", 1)))
        ELSE IF text \in TabPhrases
        THEN same(CommandResult(TRUE, "tab", NoText, Action("__TAB__", 1)))
        ELSE IF text \in EscPhrases
        THEN same(CommandResult(TRUE, "esc", NoText, Action("__ESC__", 1)))
        ELSE IF text \in punc_names
        THEN same(CommandResult(TRUE, "punctuation", text, TypeText(punc_map(text))))
        ELSE IF text \in UndoPhrases
        THEN IF h = <<>>
             THEN same(CommandResult(TRUE, "nothing_to_delete", NoText, Empty))
             ELSE [result |-> CommandResult(TRUE, "delete_last", h[Len(h)],
                                            Action("__BACKSPACE__", Len(h[Len(h)]))),
                   paused |-> p,
                   history |-> SubSeq(h, 1, Len(h) - 1)]
        ELSE IF n.found
        THEN same(CommandResult(TRUE, "delete_n", NoText, Action("__BACKSPACE__", n.n)))
        ELSE IF text \in ClearPhrases
        THEN [result |-> CommandResult(TRUE, "clear", NoText,
                                       Action("__BACKSPACE__", CLEAR_BACKSPACE_MAX)),
              paused |-> p,
              history |-> <<>>]
        ELSE same(CommandResult(FALSE, "free_text", raw_text, TypeText(raw_text)))

\* handle_active that types the normalized text
handle_active_normalized(raw_text, text, p, h) ==
    LET n == parse_delete_n(text)
        same(r) == [result |-> r, paused |-> p, history |-> h]
    IN  IF text \in EnterPhrases
        THEN same(CommandResult(TRUE, "enter", NoText, Action("__ENTER__", 1)))
        ELSE IF text \in TabPhrases
        THEN same(CommandResult(TRUE, "tab", NoText, Action("__TAB__", 1)))
        ELSE IF text \in EscPhrases
        THEN same(CommandResult(TRUE, "esc", NoText, Action("__ESC__", 1)))
        ELSE IF text \in punc_names
        THEN same(CommandResult(TRUE, "punctuation", text, TypeText(punc_map(text))))
        ELSE IF text \in UndoPhrases
        THEN IF h = <<>>
             THEN same(CommandResult(TRUE, "nothing_to_delete", NoText, Empty))
             ELSE [result |-> CommandResult(TRUE, "delete_last", h[Len(h)],
                                            Action("__BACKSPACE__", Len(h[Len(h)]))),
                   paused |-> p,
                   history |-> SubSeq(h, 1, Len(h) - 1)]
        ELSE IF n.found
        THEN same(CommandResult(TRUE, "delete_n", NoText, Action("__BACKSPACE__", n.n)))
        ELSE IF text \in ClearPhrases
        THEN same(CommandResult(TRUE, "clear", NoText,
                                Action("__BACKSPACE__", CLEAR_BACKSPACE_MAX)))
        ELSE same(CommandResult(FALSE, "free_text", text, TypeText(text)))

\* handle_active whose undo branch reads the newest entry and leaves it in place
handle_active_undo_keeps(raw_text, text, p, h) ==
    LET n == parse_delete_n(text)
        same(r) == [result |-> r, paused |-> p, history |-> h]
    IN  IF text \in EnterPhrases
        THEN same(CommandResult(TRUE, "enter", NoText, Action("__ENTER__", 1)))
        ELSE IF text \in TabPhrases
        THEN same(CommandResult(TRUE, "tab", NoText, Action("__TAB__", 1)))
        ELSE IF text \in EscPhrases
        THEN same(CommandResult(TRUE, "esc", NoText, Action("__ESC__", 1)))
        ELSE IF text \in punc_names
        THEN same(CommandResult(TRUE, "punctuation", text, TypeText(punc_map(text))))
        ELSE IF text \in UndoPhrases
        THEN IF h = <<>>
             THEN same(CommandResult(TRUE, "nothing_to_delete", NoText, Empty))
             ELSE [result |-> CommandResult(TRUE, "delete_last", h[Len(h)],
                                            Action("__BACKSPACE__", Len(h[Len(h)]))),
                   paused |-> p,
                   history |-> h]
        ELSE IF n.found
        THEN same(CommandResult(TRUE, "delete_n", NoText, Action("__BACKSPACE__", n.n)))
        ELSE IF text \in ClearPhrases
        THEN same(CommandResult(TRUE, "clear", NoText,
                                Action("__BACKSPACE__", CLEAR_BACKSPACE_MAX)))
        ELSE same(CommandResult(FALSE, "free_text", raw_text, TypeText(raw_text)))

\* CommandProcessor.handle past the pause gate, the branches of an interpreter
\* that is not paused: text is normalize(raw_text)
handle_active(raw_text, text, p, h) ==
    LET n == parse_delete_n(text)
        same(r) == [result |-> r, paused |-> p, history |-> h]
    IN  IF text \in EnterPhrases
        THEN same(CommandResult(TRUE, "enter", NoText, Action("__ENTER__", 1)))
        ELSE IF text \in TabPhrases
        THEN same(CommandResult(TRUE, "tab", NoText, Action("__TAB__", 1)))
        ELSE IF text \in EscPhrases
        THEN same(CommandResult(TRUE, "esc", NoText, Action("__ESC__", 1)))
        ELSE IF text \in punc_names
        THEN same(CommandResult(TRUE, "punctuation", text, TypeText(punc_map(text))))
        ELSE IF text \in UndoPhrases
        THEN IF h = <<>>
             THEN same(CommandResult(TRUE, "nothing_to_delete", NoText, Empty))
             ELSE [result |-> CommandResult(TRUE, "delete_last", h[Len(h)],
                                            Action("__BACKSPACE__", Len(h[Len(h)]))),
                   paused |-> p,
                   history |-> SubSeq(h, 1, Len(h) - 1)]
        ELSE IF n.found
        THEN same(CommandResult(TRUE, "delete_n", NoText, Action("__BACKSPACE__", n.n)))
        ELSE IF text \in ClearPhrases
        THEN same(CommandResult(TRUE, "clear", NoText,
                                Action("__BACKSPACE__", CLEAR_BACKSPACE_MAX)))
        ELSE same(CommandResult(FALSE, "free_text", raw_text, TypeText(raw_text)))

\* handle with the paused branch left out
handle_ungated(raw_text, p, h) ==
    LET text == normalize(raw_text)
    IN  IF text \in PausePhrases
        THEN [result |-> CommandResult(TRUE, "paused", NoText, Empty),
              paused |-> TRUE, history |-> h]
        ELSE IF text \in ResumePhrases
        THEN [result |-> CommandResult(TRUE, "resumed", NoText, Empty),
              paused |-> FALSE, history |-> h]
        ELSE handle_active(raw_text, text, p, h)

\* handle whose paused branch passes raw_text as the output as well as in the
\* display text
handle_echo_typed(raw_text, p, h) ==
    LET text == normalize(raw_text)
    IN  IF text \in PausePhrases
        THEN [result |-> CommandResult(TRUE, "paused", NoText, Empty),
              paused |-> TRUE, history |-> h]
        ELSE IF text \in ResumePhrases
        THEN [result |-> CommandResult(TRUE, "resumed", NoText, Empty),
              paused |-> FALSE, history |-> h]
        ELSE IF p
        THEN [result |-> CommandResult(TRUE, "while_paused", raw_text,
                                       TypeText(raw_text)),
              paused |-> p, history |-> h]
        ELSE handle_active(raw_text, text, p, h)

\* CommandProcessor.handle on raw_text with paused = p and history = h: the
\* CommandResult returned and the paused flag and history it leaves
handle(raw_text, p, h) ==
    LET text == normalize(raw_text)
    IN  IF text \in PausePhrases
        THEN [result |-> CommandResult(TRUE, "paused", NoText, Empty),
              paused |-> TRUE, history |-> h]
        ELSE IF text \in ResumePhrases
        THEN [result |-> CommandResult(TRUE, "resumed", NoText, Empty),
              paused |-> FALSE, history |-> h]
        ELSE IF p
        THEN [result |-> CommandResult(TRUE, "while_paused", raw_text, Empty),
              paused |-> p, history |-> h]
        ELSE handle_active(raw_text, text, p, h)

\* a deque that evicts one entry too late
Append_maxlen_late(h, x) ==
    IF Len(h) > HISTORY_MAX_LEN THEN Append(Tail(h), x) ELSE Append(h, x)

\* deque(maxlen=HISTORY_MAX_LEN).append
Append_maxlen(h, x) ==
    IF Len(h) >= HISTORY_MAX_LEN THEN Append(Tail(h), x) ELSE Append(h, x)

\* CommandProcessor.record_output: the history it leaves
record_output(h, out) ==
    IF out # <<>> /\ out # <<"NL">>
    THEN Append_maxlen(h, IF Len(out) > HISTORY_ENTRY_MAX
                          THEN SubSeq(out, 1, HISTORY_ENTRY_MAX) ELSE out)
    ELSE h

---------------------------------------------------------------------------
(* InputInjector *)

Inject(op, text, n) == [op |-> op, text |-> text, n |-> n, ok |-> TRUE]

\* execute_output: the InputInjector calls it makes for an output
execute_output(out) ==
    IF out.kind = "key" /\ out.key = "__BACKSPACE__" THEN <<Inject("backspace", NoText, out.n)>>
    ELSE IF out.kind = "key" /\ out.key = "__ENTER__" THEN <<Inject("press_enter", NoText, 1)>>
    ELSE IF out.kind = "key" /\ out.key = "__TAB__" THEN <<Inject("press_tab", NoText, 1)>>
    ELSE IF out.kind = "key" /\ out.key = "__ESC__" THEN <<Inject("press_esc", NoText, 1)>>
    ELSE IF out.kind = "text" THEN <<Inject("send_unicode_text", out.text, 0)>>
    ELSE <<>>

\* Whether an InputInjector call can raise: the synthetic variant raises from
\* _send_input when SendInput took fewer events than given; the paste variant
\* swallows every error of send_unicode_text, and its key presses raise what
\* pyautogui raises; backspace(n <= 0) does nothing
CanRaise(win, c) ==
    IF c.op = "send_unicode_text" THEN win /\ c.text # <<>>
    ELSE IF c.op = "backspace" THEN c.n > 0
    ELSE TRUE

\* The calls in cs made one after the other, of which call number failAt raises
\* (0: none does): the calls made, the last one failed, and whether it raised
RunInjector(win, cs, failAt) ==
    IF failAt \in 1..Len(cs) /\ CanRaise(win, cs[failAt])
    THEN [done |-> [i \in 1..failAt |->
                      IF i = failAt THEN [cs[i] EXCEPT !.ok = FALSE] ELSE cs[i]],
          raised |-> TRUE]
    ELSE [done |-> cs, raised |-> FALSE]

---------------------------------------------------------------------------
(* InputService *)

\* the two fixed lines of the diagnostic injection, each taken as one text
TEST_INJECT_TEXT == <<"[SendInput Test] 123 ABC">>
TEST_SUCCESS_LINE == <<"SendInput injection succeeded">>

\* _server_dedup with <= for <: a repetition after exactly 1.2 s is a duplicate
server_dedup_inclusive(text, lm, lt, t) ==
    IF text = lm /\ (t - lt) <= SERVER_DEDUP_WINDOW_SEC
    THEN [dup |-> TRUE, last_msg |-> lm, last_time |-> lt]
    ELSE [dup |-> FALSE, last_msg |-> text, last_time |-> t]

\* _server_dedup with the comparison of the elapsed time turned around
server_dedup_flipped(text, lm, lt, t) ==
    IF text = lm /\ (t - lt) > SERVER_DEDUP_WINDOW_SEC
    THEN [dup |-> TRUE, last_msg |-> lm, last_time |-> lt]
    ELSE [dup |-> FALSE, last_msg |-> text, last_time |-> t]

\* _server_dedup that does not compare the text with the slot
server_dedup_any_text(text, lm, lt, t) ==
    IF (t - lt) < SERVER_DEDUP_WINDOW_SEC
    THEN [dup |-> TRUE, last_msg |-> lm, last_time |-> lt]
    ELSE [dup |-> FALSE, last_msg |-> text, last_time |-> t]

\* _server_dedup that writes the time of a suppressed call into the slot
server_dedup_refreshing(text, lm, lt, t) ==
    IF text = lm /\ (t - lt) < SERVER_DEDUP_WINDOW_SEC
    THEN [dup |-> TRUE, last_msg |-> lm, last_time |-> t]
    ELSE [dup |-> FALSE, last_msg |-> text, last_time |-> t]

\* InputService._server_dedup at time t with the slot (lm, lt): whether the text
\* is a duplicate, and the slot it leaves
server_dedup(text, lm, lt, t) ==
    IF text = lm /\ (t - lt) < SERVER_DEDUP_WINDOW_SEC
    THEN [dup |-> TRUE, last_msg |-> lm, last_time |-> lt]
    ELSE [dup |-> FALSE, last_msg |-> text, last_time |-> t]

\* the diagnostic path with each line break pressed before its line
test_inject_enter_first == << Inject("press_enter", NoText, 1),
                              Inject("send_unicode_text", TEST_INJECT_TEXT, 0),
                              Inject("press_enter", NoText, 1),
                              Inject("send_unicode_text", TEST_SUCCESS_LINE, 0) >>

\* the InputInjector calls of the diagnostic path of handle_text
test_inject == << Inject("send_unicode_text", TEST_INJECT_TEXT, 0),
                  Inject("press_enter", NoText, 1),
                  Inject("send_unicode_text", TEST_SUCCESS_LINE, 0),
                  Inject("press_enter", NoText, 1) >>

\* InputService.handle_text(raw) at time t in the state (p, h, lm, lt), where
\* InputInjector call number failAt raises: what the call does (outcome, the
\* CommandResult's output, the InputInjector calls made, the notifications,
\* whether an exception leaves handle_text, and as trace the notify and
\* InputInjector calls in the order they are made: a notification made before the
\* injection, the injector calls, the notification made after them) and the state
\* it leaves
handle_text(raw, failAt, win, p, h, lm, lt, t) ==
    LET text == Strip(raw)
        d == server_dedup(text, lm, lt, t)
        keep == [paused |-> p, history |-> h, last_msg |-> lm, last_time |-> lt]
        slot == [paused |-> p, history |-> h,
                 last_msg |-> d.last_msg, last_time |-> d.last_time]
        tst == RunInjector(win, test_inject, failAt)
        res == handle(text, p, h)
        out == res.result.output
        run == RunInjector(win, execute_output(out), failAt)
        after == [slot EXCEPT !.paused = res.paused, !.history = res.history]
        did(outcome, reached, o, handled, inj, notes, raised, st) ==
            [outcome |-> outcome, reached |-> reached, output |-> o,
             handled |-> handled, injected |-> inj, notes |-> notes,
             raised |-> raised, state |-> st,
             trace |-> [i \in 1..(Len(notes) + Len(inj)) |->
                         IF notes # <<>> /\ i = 1 THEN notes[1]
                         ELSE IF i > 1 + Len(inj) THEN notes[i - Len(inj)]
                         ELSE inj[IF notes = <<>> THEN i ELSE i - 1].op]]
    IN  IF text = <<>>
        THEN did("empty_input", FALSE, Empty, FALSE, <<>>, <<>>, FALSE, keep)
        ELSE IF d.dup
        THEN did("dedup", FALSE, Empty, FALSE, <<>>, <<>>, FALSE, slot)
        ELSE IF text = TEST_SENTINEL
        THEN did("test_inject", FALSE, Empty, FALSE, tst.done,
                 <<"test_start", IF tst.raised THEN "test_failed" ELSE "test_ok">>,
                 FALSE, slot)
        ELSE IF out.kind = "empty"
        THEN did("display", TRUE, out, res.result.handled, <<>>,
                 <<res.result.display_text[1]>>, FALSE, after)
        ELSE IF run.raised
        THEN did("raised", TRUE, out, res.result.handled, run.done, <<>>, TRUE, after)
        ELSE did("injected", TRUE, out, res.result.handled, run.done, <<>>, FALSE,
                 IF ~res.result.handled /\ out.kind = "text"
                 THEN [after EXCEPT !.history = record_output(res.history, out.text)]
                 ELSE after)

---------------------------------------------------------------------------
(* One behaviour of InputService *)

MaxInjectorCalls == Len(test_inject)

NoCall == [text |-> NoText, at |-> 0]

\* what the previous call c looks like from a call made at time t: its text and
\* how long ago it was made
Seen(c, t) == [text |-> c.text, ago |-> IF c.text = NoText THEN 0 ELSE t - c.at]

NoCallYet == [text |-> NoText, did |-> "none", reached |-> FALSE,
              output |-> Empty, handled |-> FALSE, injected |-> <<>>,
              notes |-> <<>>, raised |-> FALSE, trace |-> <<>>,
              pausedBefore |-> FALSE,
              historyBefore |-> <<>>, prev |-> Seen(NoCall, 0),
              acc |-> Seen(NoCall, 0)]

\* the free text number k: "w" and the decimal digits of k
DigitName == [d \in 0..9 |-> CHOOSE c \in DigitChars : DigitVal(c) = d]
RECURSIVE Decimal(_)
Decimal(k) ==
    IF k < 10 THEN <<DigitName[k]>> ELSE Append(Decimal(k \div 10), DigitName[k % 10])
Word(k) == <<"w">> \o Decimal(k)

InputInit ==
    /\ IS_WINDOWS \in BOOLEAN
    /\ paused = FALSE
    /\ history = <<>>
    /\ last_msg = NoText
    /\ last_time = 0
    /\ now = 0
    /\ calls = 0
    /\ call = NoCallYet
    /\ prev = NoCall
    /\ acc = NoCall

\* time passes between two calls
Tick(d) ==
    /\ calls < MaxCalls
    /\ now + d <= MaxTime
    /\ now' = now + d
    /\ UNCHANGED <<IS_WINDOWS, paused, history, last_msg, last_time, calls, call,
                   prev, acc>>
    /\ UNCHANGED <<raceVars, lifeVars, wireVars, loopVars>>

\* the state a handle_text call on raw leaves, r being what handle_text did
Called(raw, r) ==
    /\ calls' = calls + 1
    /\ paused' = r.state.paused
    /\ history' = r.state.history
    /\ last_msg' = r.state.last_msg
    /\ last_time' = r.state.last_time
    /\ call' = [text |-> Strip(raw), did |-> r.outcome,
                reached |-> r.reached, output |-> r.output,
                handled |-> r.handled, injected |-> r.injected,
                notes |-> r.notes, raised |-> r.raised, trace |-> r.trace,
                pausedBefore |-> paused, historyBefore |-> history,
                prev |-> Seen(prev, now), acc |-> Seen(acc, now)]
    /\ prev' = IF r.outcome = "empty_input" THEN prev
               ELSE [text |-> Strip(raw), at |-> now]
    /\ acc' = IF r.outcome \in {"empty_input", "dedup"} THEN acc
              ELSE [text |-> Strip(raw), at |-> now]
    /\ UNCHANGED <<IS_WINDOWS, now>>

\* one call of InputService.handle_text, from either transport; the diagnostic
\* path makes up to four InputInjector calls, every other path at most one
HandleText(raw, failAt) ==
    /\ Strip(raw) = TEST_SENTINEL \/ failAt <= 1
    /\ \E r \in {handle_text(raw, failAt, IS_WINDOWS, paused, history, last_msg,
                             last_time, now)} :
        Called(raw, r)
    /\ UNCHANGED <<raceVars, lifeVars, wireVars, loopVars>>

---------------------------------------------------------------------------
(* ServiceLifecycle: start_services, stop_services and the two listener   *)
(* threads of src/server.py.  A caller thread runs one call at a time; a   *)
(* listener thread is known by the number of the launch that created it.   *)

DEFAULT_HTTP_PORT == 8080
DEFAULT_WS_PORT == 8765
MAX_PORT_TRY == 50

MaxLifeCalls == 3                   \* calls of start_services and stop_services
MaxLaunches == (MaxLifeCalls + 1) \div 2    \* a launch needs a stop before the next

None == 0
Callers == {"t1", "t2"}
Launches == 1..MaxLaunches

\* range(start_port, start_port + MAX_PORT_TRY)
Candidates(start_port) == start_port..(start_port + MAX_PORT_TRY - 1)

\* ports held by the listeners of this program
OwnPorts ==
    {http[i].port : i \in {j \in Launches : http[j].st \in {"serving", "stopped"}}}
    \cup {ws[i].port : i \in {j \in Launches : ws[j].st = "serving"}}

\* is_port_free: whether a socket can be bound to the port now
is_port_free(port) == port \notin occupied /\ port \notin OwnPorts

\* choose_free_port with the candidates tried from the last one down
choose_free_port_downwards(start_port) ==
    LET free == {q \in Candidates(start_port) : is_port_free(q)}
    IN  IF free = {} THEN None ELSE CHOOSE q \in free : \A o \in free : q >= o

\* choose_free_port: the first free candidate; None where the code raises
\* RuntimeError
choose_free_port(start_port) ==
    LET free == {q \in Candidates(start_port) : is_port_free(q)}
    IN  IF free = {} THEN None ELSE CHOOSE q \in free : \A o \in free : q <= o

\* build_urls: the URL names the two ports as they are when it is built
build_urls == <<HTTP_PORT, WS_PORT>>

Idle == [op |-> "none", result |-> "none", launch |-> 0]

LifeInit ==
    /\ SERVICE_LOCK = "free"
    /\ SERVICE_RUNNING = FALSE
    /\ HTTP_PORT = None
    /\ WS_PORT = None
    /\ QR_PAYLOAD_URL = None
    /\ HTTP_SERVER = None
    /\ WS_LOOP = None
    /\ WS_SERVER = None
    /\ WS_THREAD = None
    /\ cpc = [t \in Callers |-> "idle"]
    /\ cloc = [t \in Callers |-> Idle]
    /\ http = [i \in Launches |-> [st |-> "none", port |-> None, stopReq |-> FALSE]]
    /\ ws = [i \in Launches |-> [st |-> "none", port |-> None, stopReq |-> FALSE]]
    /\ launches = 0
    /\ lifecalls = 0
    /\ occupied \in { {}, {DEFAULT_HTTP_PORT}, Candidates(DEFAULT_HTTP_PORT),
                       Candidates(DEFAULT_WS_PORT) }

\* a caller moves from one position to the next
Goto(t, to) == cpc' = [cpc EXCEPT ![t] = to]
Returns(t, result) ==
    /\ cpc' = [cpc EXCEPT ![t] = "idle"]
    /\ cloc' = [cloc EXCEPT ![t].result = result]

listeners == <<http, ws>>
refs == <<HTTP_SERVER, WS_LOOP, WS_SERVER, WS_THREAD>>
ports == <<HTTP_PORT, WS_PORT, QR_PAYLOAD_URL>>

(* start_services *)

\* start_services without the test of SERVICE_RUNNING
StartEnter_unchecked(t) ==
    /\ cpc[t] = "idle"
    /\ lifecalls < MaxLifeCalls
    /\ lifecalls' = lifecalls + 1
    /\ SERVICE_LOCK = "free"
    /\ SERVICE_LOCK' = t
    /\ Goto(t, "start_ports")
    /\ cloc' = [cloc EXCEPT ![t] = [op |-> "start", result |-> "pending",
                                    launch |-> 0]]
    /\ UNCHANGED <<SERVICE_RUNNING, ports, refs, listeners, launches, occupied>>
    /\ UNCHANGED <<inputVars, raceVars, wireVars, loopVars>>

\* with SERVICE_LOCK: if SERVICE_RUNNING: return
StartEnter(t) ==
    /\ cpc[t] = "idle"
    /\ lifecalls < MaxLifeCalls
    /\ lifecalls' = lifecalls + 1
    /\ SERVICE_LOCK = "free"
    /\ IF SERVICE_RUNNING
       THEN /\ cloc' = [cloc EXCEPT ![t] = [op |-> "start", result |-> "noop",
                                            launch |-> 0]]
            /\ UNCHANGED <<cpc, SERVICE_LOCK>>
       ELSE /\ SERVICE_LOCK' = t
            /\ Goto(t, "start_ports")
            /\ cloc' = [cloc EXCEPT ![t] = [op |-> "start", result |-> "pending",
                                            launch |-> 0]]
    /\ UNCHANGED <<SERVICE_RUNNING, ports, refs, listeners, launches, occupied>>
    /\ UNCHANGED <<inputVars, raceVars, wireVars, loopVars>>

\* start_services with SERVICE_LOCK taken by acquire() and given back by a
\* release() that the RuntimeError of choose_free_port skips
StartPorts_lock_kept(t) ==
    /\ cpc[t] = "start_ports"
    /\ \E h \in {choose_free_port(DEFAULT_HTTP_PORT)},
          w \in {choose_free_port(DEFAULT_WS_PORT)} :
        IF h = None
        THEN /\ Returns(t, "raised")
             /\ UNCHANGED <<SERVICE_LOCK, SERVICE_RUNNING, ports, launches>>
        ELSE IF w = None
        THEN /\ HTTP_PORT' = h
             /\ Returns(t, "raised")
             /\ UNCHANGED <<SERVICE_LOCK, SERVICE_RUNNING, WS_PORT, QR_PAYLOAD_URL,
                            launches>>
        ELSE /\ HTTP_PORT' = h
             /\ WS_PORT' = w
             /\ QR_PAYLOAD_URL' = <<h, w>>
             /\ SERVICE_RUNNING' = TRUE
             /\ SERVICE_LOCK' = "free"
             /\ launches' = launches + 1
             /\ cloc' = [cloc EXCEPT ![t].launch = launches + 1]
             /\ Goto(t, "start_threads")
    /\ UNCHANGED <<refs, listeners, occupied>>
    /\ UNCHANGED <<lifecalls, inputVars, raceVars, wireVars, loopVars>>

\* HTTP_PORT = choose_free_port(DEFAULT_HTTP_PORT);
\* WS_PORT = choose_free_port(DEFAULT_WS_PORT); build_urls(get_effective_ip());
\* SERVICE_RUNNING = True.  The lock is released when the block is left, by the
\* last statement or by the RuntimeError of choose_free_port.
StartPorts(t) ==
    /\ cpc[t] = "start_ports"
    /\ SERVICE_LOCK' = "free"
    /\ \E h \in {choose_free_port(DEFAULT_HTTP_PORT)},
          w \in {choose_free_port(DEFAULT_WS_PORT)} :
        IF h = None
        THEN /\ Returns(t, "raised")
             /\ UNCHANGED <<SERVICE_RUNNING, ports, launches>>
        ELSE IF w = None
        THEN /\ HTTP_PORT' = h
             /\ Returns(t, "raised")
             /\ UNCHANGED <<SERVICE_RUNNING, WS_PORT, QR_PAYLOAD_URL, launches>>
        ELSE /\ HTTP_PORT' = h
             /\ WS_PORT' = w
             /\ QR_PAYLOAD_URL' = <<h, w>>
             /\ SERVICE_RUNNING' = TRUE
             /\ launches' = launches + 1
             /\ cloc' = [cloc EXCEPT ![t].launch = launches + 1]
             /\ Goto(t, "start_threads")
    /\ UNCHANGED <<refs, listeners, occupied>>
    /\ UNCHANGED <<lifecalls, inputVars, raceVars, wireVars, loopVars>>

\* HTTP_THREAD = threading.Thread(target=_run_http_server_forever); start();
\* WS_THREAD = threading.Thread(target=_ws_thread_main); start()
StartThreads(t) ==
    /\ cpc[t] = "start_threads"
    /\ http' = [http EXCEPT ![cloc[t].launch].st = "new"]
    /\ ws' = [ws EXCEPT ![cloc[t].launch].st = "new"]
    /\ WS_THREAD' = cloc[t].launch
    /\ Goto(t, "start_wait")
    /\ UNCHANGED <<SERVICE_LOCK, SERVICE_RUNNING, ports, HTTP_SERVER, WS_LOOP,
                   WS_SERVER, cloc, launches, occupied>>
    /\ UNCHANGED <<lifecalls, inputVars, raceVars, wireVars, loopVars>>

\* ws_ready.wait(timeout=3): the event is set, or the three seconds are over;
\* notify(...), and the call returns
StartWait(t) ==
    /\ cpc[t] = "start_wait"
    /\ Returns(t, IF ws[cloc[t].launch].st \in {"serving", "closed"}
                  THEN "done" ELSE "done_unready")
    /\ UNCHANGED <<SERVICE_LOCK, SERVICE_RUNNING, ports, refs, listeners, launches,
                   occupied>>
    /\ UNCHANGED <<lifecalls, inputVars, raceVars, wireVars, loopVars>>

(* stop_services *)

\* stop_services without the test of SERVICE_RUNNING
StopEnter_unchecked(t) ==
    /\ cpc[t] = "idle"
    /\ lifecalls < MaxLifeCalls
    /\ lifecalls' = lifecalls + 1
    /\ SERVICE_LOCK = "free"
    /\ SERVICE_RUNNING' = FALSE
    /\ Goto(t, "stop_http")
    /\ cloc' = [cloc EXCEPT ![t] = [op |-> "stop", result |-> "pending",
                                    launch |-> 0]]
    /\ UNCHANGED <<SERVICE_LOCK, ports, refs, listeners, launches, occupied>>
    /\ UNCHANGED <<inputVars, raceVars, wireVars, loopVars>>

\* with SERVICE_LOCK: if not SERVICE_RUNNING: return; SERVICE_RUNNING = False
StopEnter(t) ==
    /\ cpc[t] = "idle"
    /\ lifecalls < MaxLifeCalls
    /\ lifecalls' = lifecalls + 1
    /\ SERVICE_LOCK = "free"
    /\ IF ~SERVICE_RUNNING
       THEN /\ cloc' = [cloc EXCEPT ![t] = [op |-> "stop", result |-> "noop",
                                            launch |-> 0]]
            /\ UNCHANGED <<cpc, SERVICE_RUNNING>>
       ELSE /\ SERVICE_RUNNING' = FALSE
            /\ Goto(t, "stop_http")
            /\ cloc' = [cloc EXCEPT ![t] = [op |-> "stop", result |-> "pending",
                                            launch |-> 0]]
    /\ UNCHANGED <<SERVICE_LOCK, ports, refs, listeners, launches, occupied>>
    /\ UNCHANGED <<inputVars, raceVars, wireVars, loopVars>>

\* if HTTP_SERVER: HTTP_SERVER.shutdown(): the request to stop serving is made;
\* shutdown() returns when serve_forever has returned.  With no server recorded:
\* HTTP_SERVER = None; HTTP_THREAD = None
StopHttp(t) ==
    /\ cpc[t] = "stop_http"
    /\ IF HTTP_SERVER = None
       THEN /\ Goto(t, "stop_ws")
            /\ UNCHANGED <<cloc, http>>
       ELSE /\ http' = [http EXCEPT ![HTTP_SERVER].stopReq = TRUE]
            /\ cloc' = [cloc EXCEPT ![t].launch = HTTP_SERVER]
            /\ Goto(t, "stop_http_wait")
    /\ UNCHANGED <<SERVICE_LOCK, SERVICE_RUNNING, ports, refs, ws, launches,
                   occupied>>
    /\ UNCHANGED <<lifecalls, inputVars, raceVars, wireVars, loopVars>>

\* shutdown() returns; HTTP_SERVER.server_close() closes the socket of the server
\* HTTP_SERVER refers to now (AttributeError on None is caught);
\* HTTP_SERVER = None; HTTP_THREAD = None
StopHttpClose(t) ==
    /\ cpc[t] = "stop_http_wait"
    /\ http[cloc[t].launch].st \in {"stopped", "closed"}
    /\ http' = IF HTTP_SERVER = None THEN http
               ELSE [http EXCEPT ![HTTP_SERVER].st = "closed"]
    /\ HTTP_SERVER' = None
    /\ Goto(t, "stop_ws")
    /\ UNCHANGED <<SERVICE_LOCK, SERVICE_RUNNING, ports, WS_LOOP, WS_SERVER,
                   WS_THREAD, cloc, ws, launches, occupied>>
    /\ UNCHANGED <<lifecalls, inputVars, raceVars, wireVars, loopVars>>

\* if WS_LOOP: run_coroutine_threadsafe(_shutdown_ws(), WS_LOOP), fut.result(3),
\* WS_LOOP.call_soon_threadsafe(WS_LOOP.stop); a closed loop raises, which is caught
StopWs(t) ==
    /\ cpc[t] = "stop_ws"
    /\ ws' = IF WS_LOOP # None /\ ws[WS_LOOP].st # "closed"
             THEN [ws EXCEPT ![WS_LOOP].stopReq = TRUE]
             ELSE ws
    /\ Goto(t, "stop_join")
    /\ UNCHANGED <<SERVICE_LOCK, SERVICE_RUNNING, ports, refs, cloc, http, launches,
                   occupied>>
    /\ UNCHANGED <<lifecalls, inputVars, raceVars, wireVars, loopVars>>

\* WS_THREAD.join(timeout=3): the thread has ended, or the three seconds are over;
\* WS_SERVER = None; WS_LOOP = None; WS_THREAD = None
StopJoin(t) ==
    /\ cpc[t] = "stop_join"
    /\ WS_SERVER' = None
    /\ WS_LOOP' = None
    /\ WS_THREAD' = None
    /\ Goto(t, "stop_clear")
    /\ UNCHANGED <<SERVICE_LOCK, SERVICE_RUNNING, ports, HTTP_SERVER, cloc,
                   listeners, launches, occupied>>
    /\ UNCHANGED <<lifecalls, inputVars, raceVars, wireVars, loopVars>>

\* HTTP_PORT = None; WS_PORT = None; QR_URL = None; QR_PAYLOAD_URL = None;
\* notify(...), and the call returns
StopClear(t) ==
    /\ cpc[t] = "stop_clear"
    /\ HTTP_PORT' = None
    /\ WS_PORT' = None
    /\ QR_PAYLOAD_URL' = None
    /\ Returns(t, "done")
    /\ UNCHANGED <<SERVICE_LOCK, SERVICE_RUNNING, refs, listeners, launches,
                   occupied>>
    /\ UNCHANGED <<lifecalls, inputVars, raceVars, wireVars, loopVars>>

(* _run_http_server_forever *)

\* HTTP_SERVER = make_server("0.0.0.0", HTTP_PORT, app); serve_forever() begins.
\* RuntimeError when HTTP_PORT is None, OSError when the port cannot be bound;
\* either ends the thread
HttpServe(i) ==
    /\ http[i].st = "new"
    /\ IF HTTP_PORT # None /\ is_port_free(HTTP_PORT)
       THEN /\ http' = [http EXCEPT ![i].st = "serving", ![i].port = HTTP_PORT]
            /\ HTTP_SERVER' = i
       ELSE /\ http' = [http EXCEPT ![i].st = "dead"]
            /\ UNCHANGED HTTP_SERVER
    /\ UNCHANGED <<SERVICE_LOCK, SERVICE_RUNNING, ports, WS_LOOP, WS_SERVER,
                   WS_THREAD, cpc, cloc, ws, launches, occupied>>
    /\ UNCHANGED <<lifecalls, inputVars, raceVars, wireVars, loopVars>>

\* serve_forever() returns once shutdown() was called
HttpExit(i) ==
    /\ http[i].st = "serving"
    /\ http[i].stopReq
    /\ http' = [http EXCEPT ![i].st = "stopped"]
    /\ UNCHANGED <<SERVICE_LOCK, SERVICE_RUNNING, ports, refs, cpc, cloc, ws,
                   launches, occupied>>
    /\ UNCHANGED <<lifecalls, inputVars, raceVars, wireVars, loopVars>>

(* _ws_thread_main *)

\* RuntimeError when WS_PORT is None; WS_LOOP = asyncio.new_event_loop()
WsLoop(i) ==
    /\ ws[i].st = "new"
    /\ IF WS_PORT = None
       THEN /\ ws' = [ws EXCEPT ![i].st = "dead"]
            /\ UNCHANGED WS_LOOP
       ELSE /\ ws' = [ws EXCEPT ![i].st = "loop"]
            /\ WS_LOOP' = i
    /\ UNCHANGED <<SERVICE_LOCK, SERVICE_RUNNING, ports, HTTP_SERVER, WS_SERVER,
                   WS_THREAD, cpc, cloc, http, launches, occupied>>
    /\ UNCHANGED <<lifecalls, inputVars, raceVars, wireVars, loopVars>>

\* WS_SERVER = loop.run_until_complete(websockets.serve(..., WS_PORT));
\* ready_evt.set(); loop.run_forever() begins.  run_until_complete raises, and the
\* thread ends with its loop left open, when the port cannot be bound or when the
\* loop was already told to stop; a port of None binds a port of the system's
\* choice
WsServe(i) ==
    /\ ws[i].st = "loop"
    /\ IF ~ws[i].stopReq /\ (WS_PORT = None \/ is_port_free(WS_PORT))
       THEN /\ ws' = [ws EXCEPT ![i].st = "serving", ![i].port = WS_PORT]
            /\ WS_SERVER' = i
       ELSE /\ ws' = [ws EXCEPT ![i].st = "dead"]
            /\ UNCHANGED WS_SERVER
    /\ UNCHANGED <<SERVICE_LOCK, SERVICE_RUNNING, ports, HTTP_SERVER, WS_LOOP,
                   WS_THREAD, cpc, cloc, http, launches, occupied>>
    /\ UNCHANGED <<lifecalls, inputVars, raceVars, wireVars, loopVars>>

\* run_forever() returns once the loop was told to stop; the finally block closes
\* the server, cancels the tasks and closes the loop
WsExit(i) ==
    /\ ws[i].st = "serving"
    /\ ws[i].stopReq
    /\ ws' = [ws EXCEPT ![i].st = "closed"]
    /\ UNCHANGED <<SERVICE_LOCK, SERVICE_RUNNING, ports, refs, cpc, cloc, http,
                   launches, occupied>>
    /\ UNCHANGED <<lifecalls, inputVars, raceVars, wireVars, loopVars>>

LifeNext ==
    \/ \E t \in Callers :
        \/ StartEnter(t) \/ StartPorts(t) \/ StartThreads(t) \/ StartWait(t)
        \/ StopEnter(t) \/ StopHttp(t) \/ StopHttpClose(t)
        \/ StopWs(t) \/ StopJoin(t) \/ StopClear(t)
    \/ \E i \in Launches :
        \/ HttpServe(i) \/ HttpExit(i)
        \/ WsLoop(i) \/ WsServe(i) \/ WsExit(i)

---------------------------------------------------------------------------
(* The two ingress contexts: the HTTP listener thread runs send_http, the  *)
(* WebSocket loop thread runs every ws_handler; both call handle_text of   *)
(* the one InputService, which takes no lock.  handle_text is followed     *)
(* here statement by statement.                                            *)

Ctx == {"http", "ws"}
RaceInputs == {T_hello, T_undo, T_undo2, T_pause, T_resume}

Local == [text |-> NoText, t |-> 0, output |-> Empty, handled |-> FALSE]

RaceInit ==
    /\ pc = [c \in Ctx |-> "idle"]
    /\ loc = [c \in Ctx |-> Local]

\* input_service.handle_text(text): text = (text or "").strip(); if not text: return
RaceEnter(c, raw) ==
    /\ pc[c] = "idle"
    /\ calls < MaxCalls
    /\ calls' = calls + 1
    /\ loc' = [loc EXCEPT ![c] = [Local EXCEPT !.text = Strip(raw)]]
    /\ pc' = [pc EXCEPT ![c] = IF Strip(raw) = NoText THEN "idle" ELSE "dedup"]
    /\ UNCHANGED <<IS_WINDOWS, paused, history, last_msg, last_time, now, call,
                   prev, acc>>
    /\ UNCHANGED <<lifeVars, wireVars, loopVars>>

\* _server_dedup: now = time.time(); the comparison with the slot
RaceDedupRead(c) ==
    /\ pc[c] = "dedup"
    /\ loc' = [loc EXCEPT ![c].t = now]
    /\ pc' = [pc EXCEPT ![c] =
                IF server_dedup(loc[c].text, last_msg, last_time, now).dup
                THEN "idle" ELSE "dedup_write"]
    /\ UNCHANGED <<inputVars>>
    /\ UNCHANGED <<lifeVars, wireVars, loopVars>>

\* _server_dedup: self._last_msg = text; self._last_time = now
RaceDedupWrite(c) ==
    /\ pc[c] = "dedup_write"
    /\ last_msg' = loc[c].text
    /\ last_time' = loc[c].t
    /\ pc' = [pc EXCEPT ![c] = "handle"]
    /\ UNCHANGED <<IS_WINDOWS, paused, history, now, calls, call, prev, acc, loc>>
    /\ UNCHANGED <<lifeVars, wireVars, loopVars>>

\* result = self.processor.handle(text); an empty output is notified and returns
RaceHandle(c) ==
    /\ pc[c] = "handle"
    /\ \E r \in {handle(loc[c].text, paused, history)} :
        /\ paused' = r.paused
        /\ history' = r.history
        /\ loc' = [loc EXCEPT ![c].output = r.result.output,
                              ![c].handled = r.result.handled]
        /\ pc' = [pc EXCEPT ![c] =
                    IF r.result.output.kind = "empty" THEN "idle" ELSE "inject"]
    /\ UNCHANGED <<IS_WINDOWS, last_msg, last_time, now, calls, call, prev, acc>>
    /\ UNCHANGED <<lifeVars, wireVars, loopVars>>

\* execute_output(result.output), which blocks on the delivery of the input; it
\* returns, or it raises when the InputInjector call can raise
RaceInject(c, fails) ==
    /\ pc[c] = "inject"
    /\ fails => CanRaise(IS_WINDOWS, execute_output(loc[c].output)[1])
    /\ pc' = [pc EXCEPT ![c] =
                IF ~fails /\ ~loc[c].handled /\ loc[c].output.kind = "text"
                THEN "record" ELSE "idle"]
    /\ UNCHANGED <<inputVars, loc>>
    /\ UNCHANGED <<lifeVars, wireVars, loopVars>>

\* self.processor.record_output(result.output)
RaceRecord(c) ==
    /\ pc[c] = "record"
    /\ history' = record_output(history, loc[c].output.text)
    /\ pc' = [pc EXCEPT ![c] = "idle"]
    /\ UNCHANGED <<IS_WINDOWS, paused, last_msg, last_time, now, calls, call,
                   prev, acc, loc>>
    /\ UNCHANGED <<lifeVars, wireVars, loopVars>>

---------------------------------------------------------------------------
(* JSON, as far as the transports use it: an object whose values are       *)
(* strings, whole numbers, true, false or null.  A text holds the double   *)
(* quote as "QUOTE"; no text of the model holds a backslash.  An object is *)
(* the sequence of its <<key, value>> pairs.                               *)

JStr(s) == [t |-> "str", s |-> s]
JNum(s) == [t |-> "num", s |-> s]
JTrue == [t |-> "lit", s |-> <<"t", "r", "u", "e">>]
JFalse == [t |-> "lit", s |-> <<"f", "a", "l", "s", "e">>]
JNull == [t |-> "lit", s |-> <<"n", "u", "l", "l">>]
Literals == {JTrue, JFalse, JNull}

K_type == <<"t", "y", "p", "e">>
K_string == <<"s", "t", "r", "i", "n", "g">>
K_ok == <<"o", "k">>
K_message == <<"m", "e", "s", "s", "a", "g", "e">>
T_text == <<"t", "e", "x", "t">>
T_cmd == <<"c", "m", "d">>
T_cmd_result == <<"c", "m", "d", "_", "r", "e", "s", "u", "l", "t">>

\* json.dumps of one value
dumps_value(v) == IF v.t = "str" THEN <<"QUOTE">> \o v.s \o <<"QUOTE">> ELSE v.s

\* json.dumps of a dict: the pairs in insertion order, ", " between the pairs
\* and ": " after each key
RECURSIVE dumps_members(_, _)
dumps_members(obj, i) ==
    IF i > Len(obj) THEN <<>>
    ELSE (IF i > 1 THEN <<",", "SP">> ELSE <<>>)
         \o <<"QUOTE">> \o obj[i][1] \o <<"QUOTE", ":", "SP">>
         \o dumps_value(obj[i][2]) \o dumps_members(obj, i + 1)
dumps(obj) == <<"{">> \o dumps_members(obj, 1) \o <<"}">>

\* position of the first character c at or after i; 0 if there is none
RECURSIVE CharAt(_, _, _)
CharAt(s, i, c) ==
    IF i > Len(s) THEN 0 ELSE IF s[i] = c THEN i ELSE CharAt(s, i + 1, c)

NoValue == [ok |-> FALSE, v |-> JNull, next |-> 0]
NoObject == [ok |-> FALSE, obj |-> <<>>, next |-> 0]

\* the JSON value that starts at position i of s, and the position after it
scan_value(s, i) ==
    IF i > Len(s) THEN NoValue
    ELSE IF s[i] = "QUOTE"
    THEN LET j == CharAt(s, i + 1, "QUOTE")
         IN  IF j = 0 THEN NoValue
             ELSE [ok |-> TRUE, v |-> JStr(SubSeq(s, i + 1, j - 1)), next |-> j + 1]
    ELSE IF s[i] = "0"
    THEN [ok |-> TRUE, v |-> JNum(<<"0">>), next |-> i + 1]
    ELSE IF s[i] \in DigitChars
    THEN [ok |-> TRUE, v |-> JNum(SubSeq(s, i, DigitsEnd(s, i))),
          next |-> DigitsEnd(s, i) + 1]
    ELSE IF \E l \in Literals : OccursAt(s, i, l.s)
    THEN LET l == CHOOSE m \in Literals : OccursAt(s, i, m.s)
         IN  [ok |-> TRUE, v |-> l, next |-> i + Len(l.s)]
    ELSE NoValue

\* the one element of a set of one element: The({ e(x) : x \in {v} }) is e(x)
\* with x standing for the value v, worked out once
The(S) == CHOOSE x \in S : TRUE

\* the members of an object from position i, where a key is due, up to the
\* closing brace; got holds the pairs read so far.  k is the key read, c the
\* position of the colon, v the value read, e the position of what follows it
RECURSIVE scan_members(_, _, _)
scan_members(s, i, got) ==
    The({ IF ~k.ok \/ k.v.t # "str" THEN NoObject ELSE
    The({ IF c > Len(s) \/ s[c] # ":" THEN NoObject ELSE
    The({ IF ~v.ok THEN NoObject ELSE
    The({ IF e > Len(s) THEN NoObject
          ELSE IF s[e] = "," THEN scan_members(s, e + 1, Append(got, <<k.v.s, v.v>>))
          ELSE IF s[e] = "}"
          THEN [ok |-> TRUE, obj |-> Append(got, <<k.v.s, v.v>>), next |-> e + 1]
          ELSE NoObject
        : e \in {SkipSpace(s, v.next)} })
        : v \in {The({scan_value(s, b) : b \in {SkipSpace(s, c + 1)}})} })
        : c \in {SkipSpace(s, k.next)} })
        : k \in {The({scan_value(s, b) : b \in {SkipSpace(s, i)}})} })

\* json.loads of a text that starts with "{": ok = FALSE where it raises
loads(s) ==
    IF s = <<>> \/ s[1] # "{" THEN [ok |-> FALSE, obj |-> <<>>]
    ELSE The({ IF r.ok /\ SkipSpace(s, r.next) = Len(s) + 1
               THEN [ok |-> TRUE, obj |-> r.obj]
               ELSE [ok |-> FALSE, obj |-> <<>>]
             : r \in { IF SkipSpace(s, 2) <= Len(s) /\ s[SkipSpace(s, 2)] = "}"
                       THEN [ok |-> TRUE, obj |-> <<>>, next |-> SkipSpace(s, 2) + 1]
                       ELSE scan_members(s, 2, <<>>) } })

\* dict.get(key): the value of the last pair with the key; null is None
get(obj, key) ==
    LET hits == {i \in 1..Len(obj) : obj[i][1] = key}
    IN  IF hits = {} THEN JNull
        ELSE obj[CHOOSE i \in hits : \A j \in hits : i >= j][2]

\* bool(v) of Python
truthy(v) ==
    IF v.t = "str" THEN v.s # <<>>
    ELSE IF v.t = "num" THEN v.s # <<"0">>
    ELSE v = JTrue

\* str(v or "")
str_or_empty(v) ==
    IF ~truthy(v) THEN <<>>
    ELSE IF v = JTrue THEN <<"T", "r", "u", "e">>
    ELSE v.s

---------------------------------------------------------------------------
(* CommandExecutionChannel: _build_command_args, _match_command and        *)
(* InputService.execute_command.  A configured command is a record of its  *)
(* match-string, its command (a string, a list of strings, or nothing) and *)
(* its args list.                                                          *)

CommandString(s) == [kind |-> "str", s |-> s, l |-> <<>>]
CommandList(l) == [kind |-> "list", s |-> <<>>, l |-> l]
CommandMissing == [kind |-> "none", s |-> <<>>, l |-> <<>>]
Configured(m, c, a) == [match |-> m, command |-> c, args |-> a]

QuoteChars == {"QUOTE", "APOS"}

\* last position of the word that starts at i: the characters up to white space
RECURSIVE WordEnd(_, _)
WordEnd(s, i) ==
    IF i + 1 <= Len(s) /\ ~IsSpace(s[i + 1]) THEN WordEnd(s, i + 1) ELSE i

\* shlex.split(s, posix=False) from position i: words are split at white space,
\* a token that starts with a quote runs to the matching quote and keeps both,
\* and a quote that is never closed raises ValueError (ok = FALSE)
RECURSIVE shlex_split_from(_, _, _)
shlex_split_from(s, i, got) ==
    The({ IF b > Len(s) THEN [ok |-> TRUE, parts |-> got]
          ELSE IF s[b] \in QuoteChars
          THEN The({ IF q = 0 THEN [ok |-> FALSE, parts |-> <<>>]
                     ELSE shlex_split_from(s, q + 1, Append(got, SubSeq(s, b, q)))
                   : q \in {CharAt(s, b + 1, s[b])} })
          ELSE The({ shlex_split_from(s, w + 1, Append(got, SubSeq(s, b, w)))
                   : w \in {WordEnd(s, b)} })
        : b \in {SkipSpace(s, i)} })
shlex_split(s) == shlex_split_from(s, 1, <<>>)

\* [str(x) for x in l if str(x).strip()]
RECURSIVE NonBlank(_)
NonBlank(l) ==
    IF l = <<>> THEN <<>>
    ELSE (IF Strip(Head(l)) # <<>> THEN <<Head(l)>> ELSE <<>>) \o NonBlank(Tail(l))

\* _build_command_args: the argument vector; ok = FALSE where shlex.split raises
build_command_args(command, args) ==
    LET split == shlex_split(command.s)
    IN  IF command.kind = "str" /\ Strip(command.s) # <<>>
        THEN IF split.ok THEN [ok |-> TRUE, parts |-> split.parts \o NonBlank(args)]
             ELSE [ok |-> FALSE, parts |-> <<>>]
        ELSE IF command.kind = "list"
        THEN [ok |-> TRUE, parts |-> NonBlank(command.l) \o NonBlank(args)]
        ELSE [ok |-> TRUE, parts |-> NonBlank(args)]

\* _match_command that takes the first configured command whatever its
\* match-string
match_command_any(text, cmds) ==
    LET t == Strip(text)
        hits == {i \in 1..Len(cmds) : Strip(cmds[i].match) # <<>>}
    IN  IF t = <<>> \/ hits = {} THEN 0
        ELSE CHOOSE i \in hits : \A j \in hits : i <= j

\* _match_command: the position of the first configured command whose trimmed
\* match-string is the trimmed text; 0 is the code's None
match_command(text, cmds) ==
    LET t == Strip(text)
        hits == {i \in 1..Len(cmds) :
                    Strip(cmds[i].match) # <<>> /\ Strip(cmds[i].match) = t}
    IN  IF t = <<>> \/ hits = {} THEN 0
        ELSE CHOOSE i \in hits : \A j \in hits : i <= j

(* The configured commands of the model *)

T_ls == <<"l", "s">>
T_say == <<"s", "a", "y">>
T_nop == <<"n", "o", "p">>
T_xx == <<"x", "x">>
T_ping == <<"p", "i", "n", "g">>

\* ls -l; say "hi (the quote is never closed); a command with nothing to run
ConfiguredCommands ==
    << Configured(T_ls, CommandString(<<"l", "s", "SP", "-", "l">>), <<>>),
       Configured(T_say, CommandString(<<"s", "a", "y", "SP", "QUOTE", "h", "i">>), <<>>),
       Configured(T_nop, CommandMissing, <<T_blank>>) >>
CommandConfigs == { <<>>, ConfiguredCommands }

\* the messages of execute_command
M_no_match == <<"wei4", "zhao", "dao4", "pi", "pei", "zhi3", "ling4">>
M_misconfigured == <<"ming", "ling4", "pei", "zhi4", "cuo", "wu">>
M_succeeded(text) ==
    <<"zhi3", "ling4", "zhi5", "xing", "cheng", "gong", "sym_colon">> \o text
M_failed(text, stderr) ==
    <<"zhi3", "ling4", "zhi5", "xing", "shi", "bai", "sym_colon">> \o text
    \o <<"sym_lparen", "e", "x", "i", "t", "SP", "1", "sym_rparen">>
    \o (IF stderr # <<>> THEN <<"SP", "-", "SP">> \o stderr ELSE <<>>)
M_exception(e) ==
    <<"zhi3", "ling4", "zhi5", "xing", "yi4", "chang", "sym_colon">> \o e

\* what subprocess.run can do with an argument vector: exit with 0, exit with 1
\* and a line on stderr, or fail to launch
Runs == {"exit0", "exit1", "oserror"}
StderrLine == <<"SP", "b", "a", "d", "NL">>
LaunchError == <<"E", "N", "O", "E", "N", "T">>

CmdOutcome(ok, message) == [kind |-> "cmd", ok |-> ok, message |-> message]
NoOutcome == CmdOutcome(FALSE, <<>>)

\* InputService.execute_command(text) with the configured commands cmds, where
\* subprocess.run does what run says: the CommandResult, the argument vectors
\* handed to subprocess.run, and whether an exception leaves execute_command
\* (shlex.split is called before the try block is entered).  i is the command
\* matched and a its argument vector
execute_command(text, cmds, run) ==
    LET did(raised, result, ran) == [raised |-> raised, result |-> result, ran |-> ran]
    IN  The({
        IF i = 0
        THEN did(FALSE, CommandResult(TRUE, "cmd_no_match", text,
                                      CmdOutcome(FALSE, M_no_match)), <<>>)
        ELSE The({
            IF ~a.ok
            THEN did(TRUE, CommandResult(TRUE, "ValueError", text, NoOutcome), <<>>)
            ELSE IF a.parts = <<>>
            THEN did(FALSE, CommandResult(TRUE, "cmd_misconfigured", text,
                                          CmdOutcome(FALSE, M_misconfigured)), <<>>)
            ELSE IF run = "exit0"
            THEN did(FALSE, CommandResult(TRUE, "cmd_ok", text,
                            CmdOutcome(TRUE, M_succeeded(text))), <<a.parts>>)
            ELSE IF run = "exit1"
            THEN did(FALSE, CommandResult(TRUE, "cmd_failed", text,
                            CmdOutcome(FALSE, M_failed(text, Strip(StderrLine)))),
                     <<a.parts>>)
            ELSE did(FALSE, CommandResult(TRUE, "cmd_exception", text,
                            CmdOutcome(FALSE, M_exception(LaunchError))), <<a.parts>>)
          : a \in {build_command_args(cmds[i].command, cmds[i].args)} })
      : i \in {match_command(text, cmds)} })

---------------------------------------------------------------------------
(* The frames and the requests of the model *)

\* {"type": ty, "string": st}
Frame(ty, st) == dumps(<< <<K_type, ty>>, <<K_string, st>> >>)

F_cmd_ls == Frame(JStr(T_cmd), JStr(T_ls))
F_cmd_say == Frame(JStr(T_cmd), JStr(T_say))
F_cmd_nop == Frame(JStr(T_cmd), JStr(T_nop))
F_cmd_xx == Frame(JStr(T_cmd), JStr(T_xx))
F_cmd_ls_padded == Frame(JStr(T_cmd), JStr(<<"l", "s", "SP">>))
F_text_hello == Frame(JStr(T_text), JStr(T_hello))
F_ping_ab == Frame(JStr(T_ping), JStr(T_ab))
F_number_type == dumps(<< <<K_type, JNum(<<"7">>)>> >>)
F_no_type == dumps(<< <<K_string, JStr(T_pause)>> >>)
\* {"type": "cmd"  without the closing brace
F_broken == <<"{", "QUOTE", "t", "y", "p", "e", "QUOTE", ":", "SP",
              "QUOTE", "c", "m", "d", "QUOTE">>

WsFrames == { T_hello, T_pause, T_blank, F_cmd_ls, F_cmd_say, F_cmd_nop, F_cmd_xx,
              F_cmd_ls_padded, F_text_hello, F_ping_ab, F_number_type, F_no_type, F_broken }

\* an HTTP request to /send: a JSON body (NoText when the body is form-encoded)
\* and the form fields, a field that is absent being null
Request(json, ftype, fstring) ==
    [json |-> json, form |-> [type |-> ftype, string |-> fstring]]

HttpRequests ==
    { Request(F_text_hello, JNull, JNull), Request(F_cmd_ls, JNull, JNull),
      Request(F_cmd_xx, JNull, JNull), Request(F_cmd_say, JNull, JNull),
      Request(F_no_type, JNull, JNull), Request(F_ping_ab, JNull, JNull),
      Request(F_broken, JNull, JNull),
      Request(NoText, JNull, JStr(T_undo)), Request(NoText, JStr(T_cmd), JStr(T_ls)),
      Request(NoText, JStr(T_text), JStr(T_blank)) }

---------------------------------------------------------------------------
(* The transports of src/lanvi_transport.py: ws_handler on one WebSocket   *)
(* connection and send_http.  A frame or a request is handled in one step. *)

MaxMsgs == 2                        \* frames and requests in one behaviour

\* handle_text was not called
NotCalled(p, h, lm, lt) ==
    [outcome |-> "none", reached |-> FALSE, output |-> Empty, handled |-> FALSE,
     injected |-> <<>>, notes |-> <<>>, raised |-> FALSE,
     state |-> [paused |-> p, history |-> h, last_msg |-> lm, last_time |-> lt]]

\* execute_command was not called
NotExecuted ==
    [raised |-> FALSE, result |-> CommandResult(FALSE, "none", NoText, NoOutcome),
     ran |-> <<>>]

\* {"type": "cmd_result", "string": ..., "ok": ..., "message": ...}
cmd_result(string, output) ==
    << <<K_type, JStr(T_cmd_result)>>, <<K_string, JStr(string)>>,
       <<K_ok, IF output.ok THEN JTrue ELSE JFalse>>,
       <<K_message, JStr(output.message)>> >>

\* ws_handler, the type and the content it reads from a frame that is trimmed
\* and not empty: a frame that starts with "{" is parsed, and whatever raises
\* inside the try block (json.loads, or .strip() of a type that is no string)
\* leaves the type "text" and the whole frame as content
ws_read(msg) ==
    LET whole == [msg_type |-> T_text, content |-> JStr(msg)]
    IN  IF msg[1] # "{" THEN whole
        ELSE The({ IF ~p.ok THEN whole
                   ELSE The({ IF truthy(ty) /\ ty.t # "str" THEN whole
                              ELSE [msg_type |-> Strip(IF truthy(ty) THEN ty.s
                                                       ELSE T_text),
                                    content |-> get(p.obj, K_string)]
                            : ty \in {get(p.obj, K_type)} })
                 : p \in {loads(msg)} })

\* ws_on_message that hands the string of a "cmd" frame to handle_text as well
ws_on_message_typed(msg, cmds, run, failAt, win, p, h, lm, lt, t) ==
    The({
        IF m.msg_type = T_cmd
        THEN The({ [msg_type |-> m.msg_type, content |-> str_or_empty(m.content),
                    string |-> string, route |-> "cmd", cmd |-> x,
                    text |-> handle_text(string, failAt, win, p, h, lm, lt, t),
                    reply |-> IF x.raised THEN NoText
                              ELSE The({ dumps(resp)
                                       : resp \in {cmd_result(string, x.result.output)} }),
                    raised |-> x.raised]
                 : string \in {Strip(str_or_empty(m.content))},
                   x \in {execute_command(Strip(str_or_empty(m.content)), cmds, run)} })
        ELSE The({ [msg_type |-> m.msg_type, content |-> string,
                    string |-> string, route |-> "text", cmd |-> NotExecuted,
                    text |-> r, reply |-> NoText,
                    raised |-> r.raised]
                 : string \in {str_or_empty(m.content)},
                   r \in {handle_text(str_or_empty(m.content), failAt, win, p, h,
                                      lm, lt, t)} })
      : m \in {ws_read(msg)} })

\* the body of ws_handler's loop for one frame that is trimmed and not empty:
\* the type and string read, the call made (execute_command or handle_text), the
\* frame to send, and whether an exception leaves the loop
ws_on_message(msg, cmds, run, failAt, win, p, h, lm, lt, t) ==
    The({
        IF m.msg_type = T_cmd
        THEN The({ [msg_type |-> m.msg_type, content |-> str_or_empty(m.content),
                    string |-> string, route |-> "cmd", cmd |-> x,
                    text |-> NotCalled(p, h, lm, lt),
                    reply |-> IF x.raised THEN NoText
                              ELSE The({ dumps(resp)
                                       : resp \in {cmd_result(string, x.result.output)} }),
                    raised |-> x.raised]
                 : string \in {Strip(str_or_empty(m.content))},
                   x \in {execute_command(Strip(str_or_empty(m.content)), cmds, run)} })
        ELSE The({ [msg_type |-> m.msg_type, content |-> string,
                    string |-> string, route |-> "text", cmd |-> NotExecuted,
                    text |-> r, reply |-> NoText,
                    raised |-> r.raised]
                 : string \in {str_or_empty(m.content)},
                   r \in {handle_text(str_or_empty(m.content), failAt, win, p, h,
                                      lm, lt, t)} })
      : m \in {ws_read(msg)} })

HttpOk == << <<K_ok, JTrue>> >>
HttpEmpty == << <<K_ok, JFalse>>, <<K_message, JStr(<<"e", "m", "p", "t", "y">>)>> >>

\* send_http, the type and the text it reads from a request: the JSON body if it
\* parses to a dict, the form fields otherwise; ok = FALSE where .strip() of a
\* type that is no string raises
http_read(req) ==
    The({ LET ty == IF truthy(get(data, K_type)) THEN get(data, K_type)
                    ELSE IF truthy(req.form.type) THEN req.form.type
                    ELSE JStr(T_text)
              content == IF get(data, K_string) # JNull THEN get(data, K_string)
                         ELSE req.form.string
          IN  IF ty.t # "str" THEN [ok |-> FALSE, msg_type |-> NoText, text |-> NoText]
              ELSE [ok |-> TRUE, msg_type |-> Strip(ty.s),
                    text |-> Strip(str_or_empty(content))]
        : data \in {The({ IF parsed.ok THEN parsed.obj ELSE <<>>
                        : parsed \in {loads(req.json)} })} })

\* send_http: the status and the dict handed to jsonify, the call made, and
\* whether an exception leaves the view (which Flask answers with status 500)
send_http(req, cmds, run, failAt, win, p, h, lm, lt, t) ==
    LET none == NotCalled(p, h, lm, lt)
    IN  The({
        LET did(route, status, body, c, ht, raised) ==
                [msg_type |-> m.msg_type, string |-> m.text, route |-> route,
                 status |-> status, body |-> body, cmd |-> c, text |-> ht,
                 raised |-> raised]
        IN  IF ~m.ok THEN did("none", 500, <<>>, NotExecuted, none, TRUE)
            ELSE IF m.text = <<>>
            THEN did("empty", 400, HttpEmpty, NotExecuted, none, FALSE)
            ELSE IF m.msg_type = T_cmd
            THEN The({ IF x.raised THEN did("cmd", 500, <<>>, x, none, TRUE)
                       ELSE did("cmd", 200, cmd_result(m.text, x.result.output), x,
                                none, FALSE)
                     : x \in {execute_command(m.text, cmds, run)} })
            ELSE The({ IF r.raised THEN did("text", 500, <<>>, NotExecuted, r, TRUE)
                       ELSE did("text", 200, HttpOk, NotExecuted, r, FALSE)
                     : r \in {handle_text(m.text, failAt, win, p, h, lm, lt, t)} })
      : m \in {http_read(req)} })

(* One WebSocket connection and the HTTP view *)

NoWire ==
    [via |-> "none", frame |-> NoText, msg_type |-> NoText, content |-> NoText,
     string |-> NoText,
     route |-> "none", raised |-> FALSE, status |-> 0, body |-> <<>>,
     reply |-> NoText, sent |-> FALSE, output |-> NoOutcome, ran |-> <<>>,
     outcome |-> "none", injected |-> <<>>,
     before |-> [paused |-> FALSE, history |-> <<>>, last_msg |-> NoText,
                 last_time |-> 0, runs |-> <<>>]]

WireInit ==
    /\ commands \in CommandConfigs
    /\ conn = "none"
    /\ rx = <<>>
    /\ tx = <<>>
    /\ runs = <<>>
    /\ msgs = 0
    /\ wire = NoWire

\* the state of InputService before a frame or a request is handled
Before == [paused |-> paused, history |-> history, last_msg |-> last_msg,
           last_time |-> last_time, runs |-> runs]

\* a client connects: ws_handler starts
WsConnect ==
    /\ conn = "none"
    /\ conn' = "open"
    /\ UNCHANGED <<commands, rx, tx, runs, msgs, wire>>
    /\ UNCHANGED <<inputVars, raceVars, lifeVars, loopVars>>

\* the client closes the connection: the async for loop comes to its end
WsClose ==
    /\ conn = "open"
    /\ conn' = "closed"
    /\ UNCHANGED <<commands, rx, tx, runs, msgs, wire>>
    /\ UNCHANGED <<inputVars, raceVars, lifeVars, loopVars>>

\* a frame that is empty once trimmed: continue
WsBlank(frame) ==
    /\ conn = "open"
    /\ msgs < MaxMsgs
    /\ Strip(frame) = <<>>
    /\ msgs' = msgs + 1
    /\ wire' = [NoWire EXCEPT !.via = "ws", !.frame = frame, !.route = "skipped",
                              !.before = Before]
    /\ UNCHANGED <<commands, conn, rx, tx, runs>>
    /\ UNCHANGED <<inputVars, raceVars, lifeVars, loopVars>>

\* one frame of the connection goes through the body of ws_handler's loop;
\* delivered tells whether the client is still there when the reply is sent
\* (websocket.send raises ConnectionClosed otherwise, which ws_handler absorbs).
\* An exception of handle_text or of execute_command leaves the loop: an OSError
\* (the WinError of _send_input) is absorbed by ws_handler's except clause, any
\* other exception leaves ws_handler; either way the handler is over
WsMessage(frame, run, failAt, delivered) ==
    /\ conn = "open"
    /\ msgs < MaxMsgs
    /\ Strip(frame) # <<>>
    /\ \E r \in {ws_on_message(Strip(frame), commands, run, failAt, IS_WINDOWS,
                               paused, history, last_msg, last_time, now)} :
        /\ msgs' = msgs + 1
        /\ rx' = Append(rx, [msg_type |-> r.msg_type, string |-> r.string])
        /\ tx' = IF r.reply # NoText /\ delivered THEN Append(tx, r.reply) ELSE tx
        /\ runs' = runs \o r.cmd.ran
        /\ conn' = IF r.cmd.raised THEN "failed"
                   ELSE IF r.text.raised
                   THEN IF IS_WINDOWS THEN "absorbed" ELSE "failed"
                   ELSE IF r.reply # NoText /\ ~delivered THEN "closed"
                   ELSE "open"
        /\ wire' = [via |-> "ws", frame |-> Strip(frame), msg_type |-> r.msg_type,
                    content |-> r.content, string |-> r.string, route |-> r.route, raised |-> r.raised,
                    status |-> 0, body |-> <<>>, reply |-> r.reply,
                    sent |-> r.reply # NoText /\ delivered,
                    output |-> r.cmd.result.output, ran |-> r.cmd.ran,
                    outcome |-> r.text.outcome, injected |-> r.text.injected,
                    before |-> Before]
        /\ IF r.text.outcome # "none" THEN Called(r.string, r.text)
           ELSE UNCHANGED inputVars
    /\ UNCHANGED commands
    /\ UNCHANGED <<raceVars, lifeVars, loopVars>>

\* one POST /send goes through send_http
SendHttp(req, run, failAt) ==
    /\ msgs < MaxMsgs
    /\ \E r \in {send_http(req, commands, run, failAt, IS_WINDOWS, paused, history,
                           last_msg, last_time, now)} :
        /\ msgs' = msgs + 1
        /\ runs' = runs \o r.cmd.ran
        /\ wire' = [via |-> "http", frame |-> req.json, msg_type |-> r.msg_type,
                    content |-> r.string, string |-> r.string, route |-> r.route, raised |-> r.raised,
                    status |-> r.status, body |-> r.body, reply |-> NoText,
                    sent |-> FALSE, output |-> r.cmd.result.output,
                    ran |-> r.cmd.ran, outcome |-> r.text.outcome,
                    injected |-> r.text.injected, before |-> Before]
        /\ IF r.text.outcome # "none" THEN Called(r.string, r.text)
           ELSE UNCHANGED inputVars
    /\ UNCHANGED <<commands, conn, rx, tx>>
    /\ UNCHANGED <<raceVars, lifeVars, loopVars>>

---------------------------------------------------------------------------
(* The running service: the WebSocket loop thread, which runs every       *)
(* ws_handler as a task of one event loop, the HTTP listener thread, and  *)
(* a call of stop_services.  A handler calls handle_text and              *)
(* execute_command directly, so the loop thread is inside that call until *)
(* the call returns.                                                      *)

Conns == {"c1", "c2"}
MaxFrames == 1

NoHandler == [st |-> "none", end |-> "none", decs |-> 0, gone |-> 0]
NoSock == [peer |-> "none", sent |-> 0, pending |-> 0]
NoLoop == [st |-> "none", listening |-> FALSE, shutdown |-> "none", stop |-> FALSE]

\* ClientCounter.inc
inc(n) == n + 1

\* ClientCounter.dec that leaves the count as it is
dec_kept(n) == n

\* ClientCounter.dec
dec(n) == n - 1

\* no service running
LoopQuiet ==
    /\ client_counter = 0
    /\ handler = [c \in Conns |-> NoHandler]
    /\ sock = [c \in Conns |-> NoSock]
    /\ httpreq = "none"
    /\ wsloop = NoLoop
    /\ stopcall = "idle"
    /\ svc = [running |-> FALSE, http_port |-> None, ws_port |-> None, url |-> None]

\* start_services has returned: serve_forever and run_forever are under way
LoopInit ==
    /\ client_counter = 0
    /\ handler = [c \in Conns |-> NoHandler]
    /\ sock = [c \in Conns |-> NoSock]
    /\ httpreq = "idle"
    /\ wsloop = [st |-> "running", listening |-> TRUE, shutdown |-> "none",
                 stop |-> FALSE]
    /\ stopcall = "idle"
    /\ svc = [running |-> TRUE, http_port |-> DEFAULT_HTTP_PORT,
              ws_port |-> DEFAULT_WS_PORT,
              url |-> <<DEFAULT_HTTP_PORT, DEFAULT_WS_PORT>>]

\* the loop thread is inside a handler's call of handle_text or execute_command
LoopBusy == \E c \in Conns : handler[c].st = "blocked"

\* the loop thread is in run_forever and between two callbacks
LoopFree == wsloop.st = "running" /\ ~LoopBusy

Running(c) == handler[c].st \in {"waiting", "blocked"}

\* finally: c = client_counter.dec(); notify("disconnected", ...)
Finish(c, how) ==
    /\ handler' = [handler EXCEPT ![c] = [st |-> "done", end |-> how,
                                          decs |-> @.decs + 1, gone |-> @.gone + 1]]
    /\ client_counter' = dec(client_counter)

(* ws_handler *)

\* a client connects: c = client_counter.inc(); notify("connected", ...);
\* async for msg in websocket
HandlerStart(c) ==
    /\ LoopFree
    /\ wsloop.listening
    /\ handler[c].st = "none"
    /\ handler' = [handler EXCEPT ![c].st = "waiting"]
    /\ client_counter' = inc(client_counter)
    /\ sock' = [sock EXCEPT ![c].peer = "open"]
    /\ UNCHANGED <<httpreq, wsloop, stopcall, svc>>
    /\ UNCHANGED <<inputVars, raceVars, lifeVars, wireVars>>

\* the client sends a frame
FrameArrives(c) ==
    /\ sock[c].peer = "open"
    /\ sock[c].sent < MaxFrames
    /\ sock' = [sock EXCEPT ![c].sent = @ + 1, ![c].pending = @ + 1]
    /\ UNCHANGED <<client_counter, handler, httpreq, wsloop, stopcall, svc>>
    /\ UNCHANGED <<inputVars, raceVars, lifeVars, wireVars>>

\* async for yields the frame; input_service.execute_command(...) or
\* input_service.handle_text(...) is called, on the loop thread
HandlerTake(c) ==
    /\ LoopFree
    /\ handler[c].st = "waiting"
    /\ sock[c].pending > 0
    /\ sock' = [sock EXCEPT ![c].pending = @ - 1]
    /\ handler' = [handler EXCEPT ![c].st = "blocked"]
    /\ UNCHANGED <<client_counter, httpreq, wsloop, stopcall, svc>>
    /\ UNCHANGED <<inputVars, raceVars, lifeVars, wireVars>>

\* the call returns (after execute_command the reply is sent); back to async for
HandlerReturn(c) ==
    /\ handler[c].st = "blocked"
    /\ handler' = [handler EXCEPT ![c].st = "waiting"]
    /\ UNCHANGED <<client_counter, sock, httpreq, wsloop, stopcall, svc>>
    /\ UNCHANGED <<inputVars, raceVars, lifeVars, wireVars>>

\* the call raises (InjectionError, ValueError of shlex.split): no except clause
\* takes it, the finally block runs and the handler ends with the exception
HandlerRaise(c) ==
    /\ handler[c].st = "blocked"
    /\ Finish(c, "error")
    /\ UNCHANGED <<sock, httpreq, wsloop, stopcall, svc>>
    /\ UNCHANGED <<inputVars, raceVars, lifeVars, wireVars>>

\* the client closes the connection, or the connection breaks
PeerClose(c, how) ==
    /\ sock[c].peer = "open"
    /\ sock' = [sock EXCEPT ![c].peer = how]
    /\ UNCHANGED <<client_counter, handler, httpreq, wsloop, stopcall, svc>>
    /\ UNCHANGED <<inputVars, raceVars, lifeVars, wireVars>>

\* async for ends (ConnectionClosedOK), or raises ConnectionClosedError,
\* ConnectionResetError or OSError, which except ...: pass absorbs; finally
HandlerEnd(c) ==
    /\ LoopFree
    /\ handler[c].st = "waiting"
    /\ sock[c].peer \in {"closed", "reset"}
    /\ Finish(c, IF sock[c].peer = "closed" THEN "normal" ELSE "abnormal")
    /\ UNCHANGED <<sock, httpreq, wsloop, stopcall, svc>>
    /\ UNCHANGED <<inputVars, raceVars, lifeVars, wireVars>>

(* the HTTP listener thread: serve_forever of make_server(host, port, app), *)
(* which handles one request after the other on the listener thread         *)

\* a request arrives before shutdown() was called, and serve_forever handles it:
\* send_http calls execute_command or handle_text
HttpBegin ==
    /\ httpreq = "idle"
    /\ stopcall = "idle"
    /\ httpreq' = "calling"
    /\ UNCHANGED <<client_counter, handler, sock, wsloop, stopcall, svc>>
    /\ UNCHANGED <<inputVars, raceVars, lifeVars, wireVars>>

\* the call returns and the response is sent
HttpReturn ==
    /\ httpreq = "calling"
    /\ httpreq' = "idle"
    /\ UNCHANGED <<client_counter, handler, sock, wsloop, stopcall, svc>>
    /\ UNCHANGED <<inputVars, raceVars, lifeVars, wireVars>>

\* between two requests serve_forever sees the shutdown request and returns
HttpShutDown ==
    /\ httpreq = "idle"
    /\ stopcall = "http_shutdown"
    /\ httpreq' = "stopped"
    /\ UNCHANGED <<client_counter, handler, sock, wsloop, stopcall, svc>>
    /\ UNCHANGED <<inputVars, raceVars, lifeVars, wireVars>>

(* stop_services *)

\* with SERVICE_LOCK: if not SERVICE_RUNNING: return; SERVICE_RUNNING = False.
\* HTTP_SERVER.shutdown() is called
StopBegin ==
    /\ stopcall = "idle"
    /\ svc.running
    /\ svc' = [svc EXCEPT !.running = FALSE]
    /\ stopcall' = "http_shutdown"
    /\ UNCHANGED <<client_counter, handler, sock, httpreq, wsloop>>
    /\ UNCHANGED <<inputVars, raceVars, lifeVars, wireVars>>

\* shutdown() returns, which it does when serve_forever has returned;
\* server_close(); fut = asyncio.run_coroutine_threadsafe(_shutdown_ws(), WS_LOOP)
StopHttpWaited ==
    /\ stopcall = "http_shutdown"
    /\ httpreq = "stopped"
    /\ wsloop' = [wsloop EXCEPT !.shutdown = "scheduled"]
    /\ stopcall' = "ws_shutdown"
    /\ UNCHANGED <<client_counter, handler, sock, httpreq, svc>>
    /\ UNCHANGED <<inputVars, raceVars, lifeVars, wireVars>>

\* fut.result(timeout=3) returns: _shutdown_ws is through, or the three seconds
\* are over with the loop thread inside a handler's call;
\* WS_LOOP.call_soon_threadsafe(WS_LOOP.stop); WS_THREAD.join(timeout=3) begins
StopWsWaited ==
    /\ stopcall = "ws_shutdown"
    /\ wsloop.shutdown = "done" \/ LoopBusy
    /\ wsloop' = [wsloop EXCEPT !.stop = TRUE]
    /\ stopcall' = "join"
    /\ UNCHANGED <<client_counter, handler, sock, httpreq, svc>>
    /\ UNCHANGED <<inputVars, raceVars, lifeVars, wireVars>>

\* join(timeout=3) returns: the thread has ended, or the three seconds are over
\* with the loop thread inside a handler's call; WS_SERVER = None; WS_LOOP = None;
\* WS_THREAD = None; HTTP_PORT = None; WS_PORT = None; QR_PAYLOAD_URL = None
StopReturn ==
    /\ stopcall = "join"
    /\ wsloop.st = "closed" \/ LoopBusy
    /\ svc' = [svc EXCEPT !.http_port = None, !.ws_port = None, !.url = None]
    /\ stopcall' = "returned"
    /\ UNCHANGED <<client_counter, handler, sock, httpreq, wsloop>>
    /\ UNCHANGED <<inputVars, raceVars, lifeVars, wireVars>>

(* the WebSocket loop thread: _shutdown_ws and _ws_thread_main *)

\* _shutdown_ws: WS_SERVER.close() closes the listening socket and the connections
\* there are; await WS_SERVER.wait_closed()
ShutdownWs ==
    /\ LoopFree
    /\ wsloop.shutdown = "scheduled"
    /\ wsloop' = [wsloop EXCEPT !.shutdown = "closing", !.listening = FALSE]
    /\ sock' = [c \in Conns |->
                  IF sock[c].peer = "open" THEN [sock[c] EXCEPT !.peer = "closed"]
                  ELSE sock[c]]
    /\ UNCHANGED <<client_counter, handler, httpreq, stopcall, svc>>
    /\ UNCHANGED <<inputVars, raceVars, lifeVars, wireVars>>

\* wait_closed() returns when every handler has ended
ShutdownWsDone ==
    /\ LoopFree
    /\ wsloop.shutdown = "closing"
    /\ \A c \in Conns : ~Running(c)
    /\ wsloop' = [wsloop EXCEPT !.shutdown = "done"]
    /\ UNCHANGED <<client_counter, handler, sock, httpreq, stopcall, svc>>
    /\ UNCHANGED <<inputVars, raceVars, lifeVars, wireVars>>

\* loop.stop() runs as a callback of the loop, after the callbacks scheduled before
\* it; run_forever() returns
LoopStop ==
    /\ LoopFree
    /\ wsloop.stop
    /\ wsloop.shutdown # "scheduled"
    /\ wsloop' = [wsloop EXCEPT !.st = "stopped"]
    /\ UNCHANGED <<client_counter, handler, sock, httpreq, stopcall, svc>>
    /\ UNCHANGED <<inputVars, raceVars, lifeVars, wireVars>>

\* finally: WS_SERVER.close(); for task in asyncio.all_tasks(loop): task.cancel();
\* loop.run_until_complete(asyncio.gather(*pending, return_exceptions=True)):
\* CancelledError ends the handler through its finally block
LoopCancel(c) ==
    /\ wsloop.st = "stopped"
    /\ handler[c].st = "waiting"
    /\ Finish(c, "cancelled")
    /\ UNCHANGED <<sock, httpreq, wsloop, stopcall, svc>>
    /\ UNCHANGED <<inputVars, raceVars, lifeVars, wireVars>>

\* loop.close(), and the thread ends
LoopClose ==
    /\ wsloop.st = "stopped"
    /\ \A c \in Conns : ~Running(c)
    /\ wsloop' = [wsloop EXCEPT !.st = "closed", !.listening = FALSE]
    /\ UNCHANGED <<client_counter, handler, sock, httpreq, stopcall, svc>>
    /\ UNCHANGED <<inputVars, raceVars, lifeVars, wireVars>>

LoopNext ==
    \/ \E c \in Conns :
        \/ HandlerStart(c) \/ FrameArrives(c) \/ HandlerTake(c)
        \/ HandlerReturn(c) \/ HandlerRaise(c) \/ HandlerEnd(c)
        \/ \E how \in {"closed", "reset"} : PeerClose(c, how)
        \/ LoopCancel(c)
    \/ HttpBegin \/ HttpReturn \/ HttpShutDown
    \/ StopBegin \/ StopHttpWaited \/ StopWsWaited \/ StopReturn
    \/ ShutdownWs \/ ShutdownWsDone \/ LoopStop \/ LoopClose

---------------------------------------------------------------------------
(* Specifications *)

LifeQuiet == LifeInit /\ occupied = {}
InputQuiet == InputInit /\ IS_WINDOWS = FALSE
WireQuiet == WireInit /\ commands = <<>>

\* InputService, called by one caller at a time
SerialInputs == { T_hello, T_hello_padded, T_ab, T_blank, T_pause, T_resume,
                  T_undo, TEST_SENTINEL }
Init == InputInit /\ RaceInit /\ LifeQuiet /\ WireQuiet /\ LoopQuiet
Next ==
    \/ \E raw \in SerialInputs, failAt \in 0..MaxInjectorCalls :
        calls < MaxCalls /\ HandleText(raw, failAt)
    \/ \E d \in Deltas : Tick(d)
Spec == Init /\ [][Next]_vars

\* One call of handle_text, on any of the input texts, in a state earlier calls
\* have left: nothing, "zan ting", "hello", "hello" and "zan ting", "hello" and
\* "ab", "hello", "ab" and "zan ting", all made at time 0
ProcessorStates ==
    { [paused |-> FALSE, history |-> <<>>, last_msg |-> NoText],
      [paused |-> TRUE, history |-> <<>>, last_msg |-> T_pause],
      [paused |-> FALSE, history |-> <<T_hello>>, last_msg |-> T_hello],
      [paused |-> TRUE, history |-> <<T_hello>>, last_msg |-> T_pause],
      [paused |-> FALSE, history |-> <<T_hello, T_ab>>, last_msg |-> T_ab],
      [paused |-> TRUE, history |-> <<T_hello, T_ab>>, last_msg |-> T_pause] }
CommandInit ==
    /\ IS_WINDOWS \in BOOLEAN
    /\ \E s \in ProcessorStates :
        /\ paused = s.paused
        /\ history = s.history
        /\ last_msg = s.last_msg
        /\ prev = [text |-> s.last_msg, at |-> 0]
        /\ acc = [text |-> s.last_msg, at |-> 0]
    /\ last_time = 0
    /\ now \in {0} \cup Deltas
    /\ calls = 0
    /\ call = NoCallYet
    /\ RaceInit
    /\ LifeQuiet
    /\ WireQuiet
    /\ LoopQuiet
CommandNext ==
    \E raw \in Inputs, failAt \in 0..MaxInjectorCalls :
        calls < MaxCommandCalls /\ HandleText(raw, failAt)
CommandSpec == CommandInit /\ [][CommandNext]_vars

\* handle_text called with one new free text after the other
HistoryNext == calls < MaxPushes /\ HandleText(Word(calls + 1), 0)
HistorySpec == Init /\ [][HistoryNext]_vars

\* InputService, called from the HTTP thread and from the WebSocket loop thread
RaceNext ==
    \/ \E c \in Ctx :
        \/ \E raw \in RaceInputs : RaceEnter(c, raw)
        \/ RaceDedupRead(c) \/ RaceDedupWrite(c) \/ RaceHandle(c)
        \/ \E fails \in BOOLEAN : RaceInject(c, fails)
        \/ RaceRecord(c)
    \/ \E d \in Deltas : Tick(d)
RaceSpec == Init /\ [][RaceNext]_vars

\* the lifecycle, called from two threads
LifeStart == InputQuiet /\ RaceInit /\ LifeInit /\ WireQuiet /\ LoopQuiet
LifeSpec == LifeStart /\ [][LifeNext]_vars

\* the transports: one WebSocket connection and the HTTP view, served one frame
\* or request at a time
WireStart == InputInit /\ RaceInit /\ LifeQuiet /\ WireInit /\ LoopQuiet
WireNext ==
    \/ WsConnect
    \/ WsClose
    \/ \E frame \in WsFrames : WsBlank(frame)
    \/ \E frame \in WsFrames, run \in Runs, failAt \in 0..1, delivered \in BOOLEAN :
        WsMessage(frame, run, failAt, delivered)
    \/ \E req \in HttpRequests, run \in Runs, failAt \in 0..1 :
        SendHttp(req, run, failAt)
WireSpec == WireStart /\ [][WireNext]_vars

\* the running service: two connections, the HTTP listener and one stop_services
LoopStart == InputQuiet /\ RaceInit /\ LifeQuiet /\ WireQuiet /\ LoopInit
LoopSpec == LoopStart /\ [][LoopNext]_vars

\* the same, where every thread that can take its next step takes it in the end;
\* when a call of handle_text or execute_command returns, when clients connect,
\* send and close, and when stop_services is called is left open
LoopFairness ==
    /\ \A c \in Conns : WF_vars(HandlerTake(c)) /\ WF_vars(HandlerEnd(c))
                          /\ WF_vars(LoopCancel(c))
    /\ WF_vars(HttpShutDown)
    /\ WF_vars(StopHttpWaited) /\ WF_vars(StopWsWaited) /\ WF_vars(StopReturn)
    /\ WF_vars(ShutdownWs) /\ WF_vars(ShutdownWsDone)
    /\ WF_vars(LoopStop) /\ WF_vars(LoopClose)
FairLoopSpec == LoopSpec /\ LoopFairness

---------------------------------------------------------------------------
(* Properties of InputService *)

\* the most recent handle_text call was given a text that is not blank
Made == call.did \notin {"none", "empty_input"}

\* the most recent handle_text call made no InputInjector call and did not
\* reach CommandProcessor.handle
Suppressed == call.injected = <<>> /\ ~call.reached

C14_AsStated ==
    (Made /\ call.prev.text = call.text /\ call.prev.ago >= SERVER_DEDUP_WINDOW_SEC)
        => (call.did # "dedup" /\ call.injected # <<>>)

\* C14, amended: a handle_text call made at least 1.2 s after the previous call
\* with the same text is not suppressed as a duplicate: it reaches
\* CommandProcessor.handle, or the diagnostic injection, and it injects whenever
\* the output it is given is not the Empty output, as for a free text handled
\* while not paused.
C14_NotSuppressed ==
    (Made /\ call.prev.text = call.text /\ call.prev.ago >= SERVER_DEDUP_WINDOW_SEC)
        => /\ call.did # "dedup"
           /\ call.reached \/ call.text = TEST_SENTINEL
           /\ (call.output # Empty \/ call.text = TEST_SENTINEL)
                => call.injected # <<>>
           /\ (call.text = T_hello /\ ~call.pausedBefore)
                => /\ Len(call.injected) = 1
                   /\ call.injected[1].op = "send_unicode_text"
                   /\ call.injected[1].text = T_hello

\* "hello" said again after exactly 1.2 s is typed again
C14_Witness ==
    /\ call.text = T_hello
    /\ call.prev = [text |-> T_hello, ago |-> SERVER_DEDUP_WINDOW_SEC]
    /\ call.did = "injected"
    /\ history = <<T_hello, T_hello>>

\* C3: once a pause phrase was handled, handle returns the Empty output for every
\* text that is neither a pause nor a resume phrase and leaves the history as it
\* was, until a resume phrase is handled; a resume phrase clears the pause, after
\* which free text is typed and an undo phrase acts on the history again.
C3_PauseGating ==
    call.reached =>
        /\ call.text = T_pause => paused
        /\ call.text = T_resume => ~paused
        /\ (call.pausedBefore /\ call.text \notin {T_pause, T_resume})
            => /\ call.output = Empty
               /\ call.did = "display"
               /\ history = call.historyBefore
               /\ paused
        /\ (~call.pausedBefore /\ call.text = T_hello)
            => call.output = TypeText(T_hello)
        /\ (~call.pausedBefore /\ call.text = T_undo /\ call.historyBefore # <<>>)
            => call.output.kind = "key"

\* free text right after a pause phrase is only displayed
C3_Witness ==
    /\ call.reached
    /\ call.pausedBefore
    /\ call.prev.text = T_pause
    /\ call.text = T_hello
    /\ call.output = Empty
    /\ paused

\* C4, as the claim states it: while paused, no handle_text call whose text is
\* not a resume phrase makes an InputInjector call or changes the history.
C4_AsStated ==
    (call.did # "none" /\ call.pausedBefore /\ call.text # T_resume)
        => (call.injected = <<>> /\ history = call.historyBefore)

\* C4, amended: while paused, no handle_text call whose text is neither a resume
\* phrase nor the diagnostic sentinel makes an InputInjector call, and no call
\* whose text is not a resume phrase changes the history; the diagnostic sentinel
\* is injected while paused as it is otherwise.
C4_PausedNoInjection ==
    (call.did # "none" /\ call.pausedBefore /\ call.text # T_resume)
        => /\ history = call.historyBefore
           /\ call.text # TEST_SENTINEL => call.injected = <<>>
           /\ call.text = TEST_SENTINEL => paused

\* an undo phrase said while paused presses no key and leaves "hello" recorded
C4_Witness ==
    /\ call.pausedBefore
    /\ call.text = T_undo
    /\ call.historyBefore = <<T_hello>>
    /\ call.injected = <<>>
    /\ history = <<T_hello>>

\* C5: an undo phrase handled while not paused and with a non-empty history
\* removes the most recently recorded entry e and yields Backspace(len(e)); after
\* "hello" was recorded, Backspace(5).
C5_Undo ==
    (call.reached /\ ~call.pausedBefore /\ call.text = T_undo
       /\ call.historyBefore # <<>>)
        => LET h == call.historyBefore
               e == h[Len(h)]
           IN  /\ call.output = Action("__BACKSPACE__", Len(e))
               /\ history = SubSeq(h, 1, Len(h) - 1)
               /\ Len(call.injected) = 1
               /\ call.injected[1].op = "backspace"
               /\ call.injected[1].n = Len(e)
               /\ e = T_hello => call.output.n = 5

\* "hello" was recorded, and the undo phrase took it back
C5_Witness ==
    /\ call.text = T_undo
    /\ call.historyBefore = <<T_hello>>
    /\ call.output = Action("__BACKSPACE__", 5)
    /\ history = <<>>

\* C6: the history never holds more than 300 entries, and after k free texts,
\* all different, were recorded it holds the last min(k, 300) of them in the
\* order they were typed.
C6_HistoryBound ==
    LET kept == IF calls < HISTORY_MAX_LEN THEN calls ELSE HISTORY_MAX_LEN
    IN  /\ Len(history) <= HISTORY_MAX_LEN
        /\ Len(history) = kept
        /\ \A i \in 1..kept : history[i] = Word(calls - kept + i)

\* 301 texts were recorded: the first one is gone
C6_Witness ==
    /\ calls = HISTORY_MAX_LEN + 1
    /\ Len(history) = HISTORY_MAX_LEN
    /\ history[1] = Word(2)
    /\ history[HISTORY_MAX_LEN] = Word(HISTORY_MAX_LEN + 1)

\* C7: handled while not paused, "shan chu 5 ge zi" yields Backspace(5) and
\* "tui ge 12 ci" yields Backspace(12); "shan chu" with no digits is returned as
\* unhandled free text.
C7_DeleteN ==
    (call.reached /\ ~call.pausedBefore) =>
        /\ call.text = T_delete5
            => call.output = Action("__BACKSPACE__", 5) /\ call.handled
        /\ call.text = T_backspace12
            => call.output = Action("__BACKSPACE__", 12) /\ call.handled
        /\ call.text = T_delete
            => call.output = TypeText(T_delete) /\ ~call.handled

\* "shan chu 5 ge zi" pressed Backspace five times
C7_Witness ==
    /\ call.text = T_delete5
    /\ call.did = "injected"
    /\ call.injected = <<Inject("backspace", NoText, 5)>>

---------------------------------------------------------------------------
(* Properties of the ingress contexts *)

\* C2: no two executions of handle_text overlap: the HTTP thread and the
\* WebSocket loop thread are never both inside handle_text.
C2_Serialized ==
    \A c, d \in Ctx : c # d => ~(pc[c] # "idle" /\ pc[d] # "idle")

---------------------------------------------------------------------------
(* Properties of the lifecycle *)

StopPositions == {"stop_http", "stop_http_wait", "stop_ws", "stop_join", "stop_clear"}
AllReturned == \A t \in Callers : cpc[t] = "idle"

\* C8: SERVICE_RUNNING implies that HTTP_PORT and WS_PORT are set, and with no
\* call of start_services or stop_services under way a port is set only while
\* SERVICE_RUNNING, that is between a start that succeeded and the next stop.
C8_Ports ==
    /\ SERVICE_RUNNING => (HTTP_PORT # None /\ WS_PORT # None)
    /\ (AllReturned /\ ~SERVICE_RUNNING) => (HTTP_PORT = None /\ WS_PORT = None)

\* C9: no start_services call selects ports while a stop_services call is still
\* tearing down, and once every call has returned with SERVICE_RUNNING false no
\* HTTP or WebSocket listener is serving.
C9_NoOverlap ==
    /\ \A t, u \in Callers : ~(cpc[t] = "start_ports" /\ cpc[u] \in StopPositions)
    /\ (AllReturned /\ ~SERVICE_RUNNING)
        => \A i \in Launches : http[i].st # "serving" /\ ws[i].st # "serving"

\* C10: a start_services call that finds SERVICE_RUNNING set returns at once and
\* leaves the ports, the URL, SERVICE_RUNNING, the listeners and the references
\* to them as they were; a launch is counted only by the step that sets
\* SERVICE_RUNNING, so that of the start_services calls of one running period
\* one launches listeners.
C10_StartNoop ==
    [][ /\ \A t \in Callers :
            (SERVICE_RUNNING /\ StartEnter(t))
                => UNCHANGED <<SERVICE_RUNNING, SERVICE_LOCK, ports, refs, listeners,
                               launches, cpc>>
        /\ launches' # launches
            => (~SERVICE_RUNNING /\ SERVICE_RUNNING' /\ launches' = launches + 1)
      ]_vars

\* two start_services calls at once: one is launching, the other returned
\* without doing anything
C10_Witness ==
    \E t, u \in Callers :
        /\ cpc[t] \in {"start_threads", "start_wait"}
        /\ cloc[u] = [op |-> "start", result |-> "noop", launch |-> 0]
        /\ SERVICE_RUNNING
        /\ launches = 1

\* C11: a stop_services call that finds SERVICE_RUNNING clear returns at once and
\* changes nothing, and a teardown is begun only by the step that clears
\* SERVICE_RUNNING, so that of the stop_services calls on one running period one
\* tears down.
C11_StopNoop ==
    [][ /\ \A t \in Callers :
            (~SERVICE_RUNNING /\ StopEnter(t))
                => UNCHANGED <<SERVICE_RUNNING, SERVICE_LOCK, ports, refs, listeners,
                               launches, cpc>>
        /\ \A t \in Callers :
            (cpc[t] = "idle" /\ cpc'[t] \in StopPositions)
                => (SERVICE_RUNNING /\ ~SERVICE_RUNNING')
      ]_vars

\* two stop_services calls at once: one is tearing down, the other returned
\* without doing anything
C11_Witness ==
    \E t, u \in Callers :
        /\ cpc[t] \in StopPositions
        /\ cloc[u] = [op |-> "stop", result |-> "noop", launch |-> 0]
        /\ ~SERVICE_RUNNING
        /\ launches = 1

\* the port q is one of the 50 candidates from start_port, it is free, and no
\* candidate below it is
LowestFree(q, start_port) ==
    /\ q \in start_port..(start_port + 49)
    /\ q \notin occupied \cup OwnPorts
    /\ \A o \in start_port..(q - 1) : o \in occupied \cup OwnPorts

\* C12: a start_services call that succeeds records as HTTP_PORT and as WS_PORT
\* the lowest free port of the 50 candidates from 8080 and from 8765; with 8080
\* bound by another process and 8081 free, HTTP_PORT is 8081.
C12_LowestFreePort ==
    [][ \A t \in Callers :
            (StartPorts(t) /\ SERVICE_RUNNING')
                => /\ LowestFree(HTTP_PORT', 8080)
                   /\ LowestFree(WS_PORT', 8765)
                   /\ (8080 \in occupied /\ 8081 \notin occupied \cup OwnPorts)
                        => HTTP_PORT' = 8081
      ]_vars

\* 8080 is taken by another process, and the service runs on 8081
C12_Witness ==
    /\ occupied = {8080}
    /\ SERVICE_RUNNING
    /\ HTTP_PORT = 8081
    /\ WS_PORT = 8765
    /\ launches = 1

\* C13: a start_services call that finds no free port among the 50 HTTP
\* candidates, or among the 50 WebSocket candidates, ends with the RuntimeError,
\* launches no listener, leaves SERVICE_RUNNING clear and gives SERVICE_LOCK
\* back; the lock is only ever held by a call that is about to give it back.
C13_PortExhaustion ==
    /\ [](SERVICE_LOCK # "free" => cpc[SERVICE_LOCK] = "start_ports")
    /\ [][ \A t \in Callers :
            (StartPorts(t)
               /\ \/ Candidates(DEFAULT_HTTP_PORT) \subseteq occupied \cup OwnPorts
                  \/ Candidates(DEFAULT_WS_PORT) \subseteq occupied \cup OwnPorts)
                => /\ cpc'[t] = "idle"
                   /\ cloc'[t].result = "raised"
                   /\ ~SERVICE_RUNNING'
                   /\ SERVICE_LOCK' = "free"
                   /\ UNCHANGED <<refs, listeners, launches>>
         ]_vars

\* a start_services call failed for want of a WebSocket port, and the other
\* thread's call after it was let in
C13_Witness ==
    \E t, u \in Callers :
        /\ t # u
        /\ occupied = Candidates(DEFAULT_WS_PORT)
        /\ cloc[t] = [op |-> "start", result |-> "raised", launch |-> 0]
        /\ cpc[t] = "idle"
        /\ cloc[u].op = "stop"
        /\ SERVICE_LOCK = "free"
        /\ ~SERVICE_RUNNING


---------------------------------------------------------------------------
(* Properties of the transports and of the CommandExecutionChannel *)

\* the most recent frame of the WebSocket connection was of type "cmd"
WsCmd == wire.via = "ws" /\ wire.route = "cmd"

\* the fields of the frame sent in reply to the most recent frame
Reply == loads(wire.reply)

IsCmdFrame(f) == f.msg_type = T_cmd
CmdFrames == SelectSeq(rx, IsCmdFrame)

\* C16: on one WebSocket connection the server sends exactly one cmd_result frame
\* for each received frame of type "cmd", in the order the cmd frames were
\* received, and sends no frame at all for a frame of type "text" or of any other
\* type (a connection the client has closed is left aside).
C16_OneReplyPerCmd ==
    conn # "closed"
        => /\ Len(tx) = Len(CmdFrames)
           /\ \A i \in 1..Len(tx) :
                /\ get(loads(tx[i]).obj, K_type) = JStr(T_cmd_result)
                /\ get(loads(tx[i]).obj, K_string) = JStr(CmdFrames[i].string)

\* C17: CommandExecutionChannel.execute never raises to its caller: for every
\* configured command (including a command string that cannot be tokenized, a
\* non-zero exit and a launch failure) it returns a CmdOutcome, with ok=false for
\* every failure.
C17_NeverRaises ==
    wire.route = "cmd"
        => /\ ~wire.raised
           /\ wire.output.ok <=> (wire.ran # <<>> /\ wire.output.message = M_succeeded(wire.string))

\* C18: handling a message of type "cmd" never calls InputInjector and leaves
\* History, the pause flag and the dedup slot unchanged, in every state including
\* Paused.
C18_CmdLeavesInputAlone ==
    wire.route = "cmd"
        => /\ wire.outcome = "none"
           /\ wire.injected = <<>>
           /\ history = wire.before.history
           /\ paused = wire.before.paused
           /\ last_msg = wire.before.last_msg
           /\ last_time = wire.before.last_time

\* "ls" is run for a "cmd" message that arrives while the processor is paused
C18_Witness ==
    /\ wire.route = "cmd"
    /\ wire.output.ok
    /\ wire.ran # <<>>
    /\ paused
    /\ last_msg = T_pause

\* C19: every HTTP POST /send with a non-empty string and a type other than "cmd"
\* is passed to InputService.handle_text and answered with {ok:true}, whatever
\* handle_text does with it (suppressed as duplicate, echoed while paused,
\* injected, or injection failed).
C19_HttpText ==
    (wire.via = "http" /\ wire.string # <<>> /\ wire.msg_type # T_cmd)
        => /\ wire.outcome # "none"
           /\ wire.status = 200
           /\ wire.body = HttpOk

\* C20: a WebSocket frame that starts like JSON but fails to parse is not
\* rejected: it is handled as a message of type "text" whose string is the whole
\* frame, and the connection keeps processing later frames.
C20_MalformedJson ==
    [][ (msgs' = msgs + 1 /\ wire'.via = "ws" /\ wire'.route # "skipped"
         /\ wire'.frame[1] = "{" /\ ~loads(wire'.frame).ok)
            => /\ wire'.route = "text"
               /\ wire'.outcome # "none"
               /\ call'.text = wire'.frame
               /\ conn' = "open"
      ]_vars

---------------------------------------------------------------------------
(* Further properties of InputService *)

\* C21: when the InputInjector fails with InjectionError while handle_text
\* injects an interpreter result (free text, punctuation, backspace or key
\* press), the error is propagated to the caller of handle_text and is surfaced
\* through a notify call.
C21_InjectionErrorSurfaced ==
    (call.did = "raised" /\ \E i \in 1..Len(call.injected) : ~call.injected[i].ok)
        => /\ call.raised
           /\ call.notes # <<>>


---------------------------------------------------------------------------
(* Properties of the running service *)

\* C22: the InputInjector calls and command executions a WebSocket frame leads to
\* do not run on the loop thread: while the call made for one connection has not
\* returned, the handler of another connection that has a frame waiting can take
\* it and have it processed.
C22_OffLoopThread ==
    \A c \in Conns, d \in Conns :
        (c # d /\ handler[c].st = "blocked" /\ handler[d].st = "waiting"
            /\ wsloop.st = "running" /\ sock[d].pending > 0)
            => ENABLED HandlerTake(d)

\* C23: the client count is the number of handlers that have started and not
\* ended, is never negative, and each connection's handler decrements it, and
\* notifies of the disconnect, exactly once, when it ends, however it ends.
C23_ClientCount ==
    /\ client_counter = Cardinality({c \in Conns : Running(c)})
    /\ client_counter >= 0
    /\ \A c \in Conns :
        /\ handler[c].decs = (IF handler[c].st = "done" THEN 1 ELSE 0)
        /\ handler[c].gone = handler[c].decs
        /\ handler[c].st = "done"
            <=> handler[c].end \in {"normal", "abnormal", "error", "cancelled"}
C23_Witness ==
    /\ client_counter = 0
    /\ \E c \in Conns, d \in Conns :
        /\ handler[c].end = "cancelled"
        /\ handler[d].end \in {"error", "abnormal"}

\* C24: once stop_services, called on a running service, has returned, no handler
\* of the service is running, the loop is stopped and closed, and the service is
\* not running with ports and URL reset.
C24_StoppedMeansQuiet ==
    stopcall = "returned"
        => /\ \A c \in Conns : ~Running(c)
           /\ wsloop.st = "closed"
           /\ ~svc.running
           /\ svc.http_port = None /\ svc.ws_port = None /\ svc.url = None

\* C25: a call of stop_services on a running service returns in the end, also
\* when an HTTP request or a handler is inside an injection or a command that
\* does not come back.
C25_StopReturns == (stopcall # "idle") ~> (stopcall = "returned")


C27_SinglePrevious ==
    (Made /\ call.text # call.acc.text)
        => /\ call.did # "dedup"
           /\ call.reached \/ call.text = TEST_SENTINEL
           /\ last_msg = call.text

\* "hello", "ab", "hello", all at 0 s, were typed and recorded
C27_Witness ==
    /\ calls = 3
    /\ now = 0
    /\ call.text = T_hello
    /\ call.prev = [text |-> T_ab, ago |-> 0]
    /\ call.did = "injected"
    /\ history = <<T_hello, T_ab, T_hello>>


\* C28: after handle_text has injected a TypeText output that is neither empty
\* nor a bare line break, be it a free text or the symbol of a spoken punctuation
\* name, that text is the newest entry of the history, so that an undo phrase
\* said next backspaces the length of the text typed last.
C28_TypedIsRecorded ==
    (call.did = "injected" /\ call.output.kind = "text"
        /\ call.output.text \notin {NoText, <<"NL">>})
        => /\ history = record_output(call.historyBefore, call.output.text)
           /\ handle(T_undo, paused, history).result.output
                = Action("__BACKSPACE__", Len(call.output.text))


\* C29: a handle_text call changes the history in two ways only: a free text that
\* was injected without error is appended (the oldest entry making room beyond
\* HISTORY_MAX_LEN), and an undo phrase handled while not paused removes the newest
\* entry.  A suppressed duplicate, an echo while paused, a pause or resume phrase,
\* a line break, tab or escape, a punctuation name, delete-N, clear-all, the
\* diagnostic sentinel and a free text whose injection raised leave it as it was.
C29_HistoryFrame ==
    LET push == call.did = "injected" /\ ~call.handled /\ call.output.kind = "text"
        pop == /\ call.reached
               /\ ~call.pausedBefore
               /\ normalize(call.text) \in UndoPhrases
               /\ call.historyBefore # <<>>
    IN  call.did # "none" =>
        /\ push => history = record_output(call.historyBefore, call.output.text)
        /\ pop => history = SubSeq(call.historyBefore, 1, Len(call.historyBefore) - 1)
        /\ (~push /\ ~pop) => history = call.historyBefore
        /\ push => (call.output.text = call.text /\ history # call.historyBefore)

\* "hello" whose injection raised is not recorded in a history of two entries
C29_Witness ==
    /\ call.did = "raised"
    /\ call.text = T_hello
    /\ ~call.handled
    /\ call.historyBefore = <<T_hello, T_ab>>
    /\ history = <<T_hello, T_ab>>


\* the normalized text is no control phrase: no pause, resume, line break, tab,
\* escape, undo or clear-all phrase, no punctuation name and no delete-N command
NoControlPhrase(text) ==
    /\ text \notin PausePhrases \cup ResumePhrases \cup EnterPhrases \cup TabPhrases
    /\ text \notin EscPhrases \cup UndoPhrases \cup ClearPhrases \cup punc_names
    /\ ~parse_delete_n(text).found

\* C30: for a text whose alias-normalized form is no control phrase, handled while
\* not paused, the output is TypeText of the text as received, trimmed; that text
\* is what is typed and, once typed, what is recorded in the history, also where
\* normalization changes the text.
C30_TypesOriginal ==
    (call.reached /\ ~call.pausedBefore /\ NoControlPhrase(normalize(call.text)))
        => /\ call.output = TypeText(call.text)
           /\ ~call.handled
           /\ call.injected # <<>> => call.injected[1].text = call.text
           /\ call.did = "injected"
                => history = record_output(call.historyBefore, call.text)

\* "a dou2 hao", which normalization turns into "a dou hao", is typed and recorded
\* as it was received
C30_Witness ==
    /\ call.text = T_alias_inside
    /\ normalize(call.text) = <<"a", "dou", "hao">>
    /\ call.did = "injected"
    /\ call.injected[1].text = T_alias_inside
    /\ history = Append(call.historyBefore, T_alias_inside)


\* the InputInjector calls of the diagnostic injection, in their order
DiagnosticOps == <<"send_unicode_text", "press_enter", "send_unicode_text",
                   "press_enter">>

\* C31: the diagnostic sentinel does not reach CommandProcessor.handle.  handle_text
\* makes, in this order, the start notification, the injection of the fixed test
\* line, Enter, the injection of the second fixed line, Enter, and the success
\* notification; when one of the injector calls raises, the calls after it are not
\* made, the failure notification is made and no exception leaves handle_text.
\* The pause flag and the history are as before in both cases.
C31_Diagnostic ==
    call.did = "test_inject" =>
        LET k == Len(call.injected)
            failed == \E i \in 1..k : ~call.injected[i].ok
        IN  /\ ~call.reached
            /\ ~call.raised
            /\ paused = call.pausedBefore
            /\ history = call.historyBefore
            /\ k \in 1..4
            /\ \A i \in 1..(k - 1) : call.injected[i].ok
            /\ k >= 1 => call.injected[1].text = TEST_INJECT_TEXT
            /\ k >= 3 => call.injected[3].text = TEST_SUCCESS_LINE
            /\ IF failed
               THEN call.trace = <<"test_start">> \o SubSeq(DiagnosticOps, 1, k)
                                    \o <<"test_failed">>
               ELSE call.trace = <<"test_start">> \o DiagnosticOps \o <<"test_ok">>

\* said after "hello" was typed, the sentinel's second line raises: Enter was
\* pressed once, the failure is notified and the history still holds "hello"
C31_Witness ==
    /\ call.did = "test_inject"
    /\ Len(call.injected) = 3
    /\ ~call.injected[3].ok
    /\ call.notes = <<"test_start", "test_failed">>
    /\ history = <<T_hello>>


\* C32: an undo phrase handled while not paused takes the newest entry off the
\* history before the backspaces are injected: when the backspace call raises,
\* the entry stays removed, and an undo phrase handled next acts on the entry
\* before it, or reports that nothing is left to delete.
C32_UndoPopsFirst ==
    (call.reached /\ ~call.pausedBefore /\ normalize(call.text) \in UndoPhrases
        /\ call.historyBefore # <<>>)
        => LET h == call.historyBefore
               next == handle(T_undo, paused, history).result.output
           IN  /\ history = SubSeq(h, 1, Len(h) - 1)
               /\ call.output = Action("__BACKSPACE__", Len(h[Len(h)]))
               /\ call.injected # <<>> /\ call.injected[1].op = "backspace"
               /\ call.raised <=> ~call.injected[1].ok
               /\ next = IF Len(h) = 1 THEN Empty
                         ELSE Action("__BACKSPACE__", Len(h[Len(h) - 1]))

\* "hello", "ab", then an undo phrase whose backspaces raise: "ab" is off the
\* history, "hello" is what the next undo phrase acts on
C32_Witness ==
    /\ call.text = T_undo
    /\ call.did = "raised"
    /\ call.historyBefore = <<T_hello, T_ab>>
    /\ history = <<T_hello>>


---------------------------------------------------------------------------
(* Further properties of the lifecycle and of the running service *)

\* C33: whenever the start_services call of the latest launch has returned
\* without raising and SERVICE_RUNNING is set, the HTTP listener and the WebSocket
\* listener of that launch are bound and serving on HTTP_PORT and WS_PORT, also
\* when the readiness wait ran out or a port was taken in the meantime.
C33_StartedMeansServing ==
    \A t \in Callers :
        (cpc[t] = "idle" /\ cloc[t].op = "start" /\ cloc[t].launch = launches
            /\ cloc[t].result \in {"done", "done_unready"} /\ SERVICE_RUNNING)
            => /\ http[launches].st = "serving"
               /\ http[launches].port = HTTP_PORT
               /\ ws[launches].st = "serving"
               /\ ws[launches].port = WS_PORT


\* C34: an InputInjector call that raises while ws_handler handles a text frame
\* does not end the handler: the connection stays open for the frames that
\* follow, and the handler's finally block, which decrements the client count,
\* is not reached.
C34_HandlerSurvivesInjectionError ==
    [][ (msgs' = msgs + 1 /\ wire'.via = "ws" /\ wire'.route = "text"
         /\ wire'.outcome = "raised")
            => conn' = "open"
      ]_vars


---------------------------------------------------------------------------
(* Further properties of CommandProcessor *)

\* the whole text is a delete command: (shan chu | tui ge), digits and, if any,
\* the unit (ge2 zi | ci), with white space between them and nothing else
WholeDeleteCommand(text) ==
    /\ DeleteAt(text, 1)
    /\ LET d == SkipSpace(text, 3)
           u == SkipSpace(text, DigitsEnd(text, d) + 1)
       IN  \/ u > Len(text)
           \/ SubSeq(text, u, Len(text)) \in { <<"ge2", "zi">>, <<"ci">> }

\* C35: a text handled while not paused is executed as delete-N only when the
\* whole of it is the delete command: a text that is no other control phrase and
\* only holds a delete word followed by digits somewhere inside it is typed as
\* free text and recorded in the history.
C35_DeleteNeedsWholeText ==
    LET text == normalize(call.text)
    IN  (call.reached /\ ~call.pausedBefore
            /\ text \notin PausePhrases \cup ResumePhrases \cup EnterPhrases
            /\ text \notin TabPhrases \cup EscPhrases \cup UndoPhrases
            /\ text \notin ClearPhrases \cup punc_names
            /\ ~WholeDeleteCommand(text))
            => /\ call.output = TypeText(call.text)
               /\ call.did = "injected"
                    => history = record_output(call.historyBefore, call.text)

=============================================================================
